---------------------------- MODULE Spec2Model ----------------------------
(***************************************************************************)
(* Decision functions and agent handlers of the three uAgents              *)
(* (RiskAnalyzerAgent.py, LaunchCoordinatorAgent.py,                       *)
(* LiquidityOptimizerAgent.py) and of ml-models/risk_scoring/model.py.     *)
(*                                                                         *)
(* Number scales.  Python floats of the source are exact multiples of the  *)
(* units below, so they are modelled as integers:                          *)
(*   risk scores and their deductions   tenths       (7.5  -> 75)          *)
(*   confidences and probabilities      hundredths   (0.92 -> 92)          *)
(*   percentages of holders / APR       tenths of %  (30.0 -> 300)         *)
(*   price range bounds                 hundredths   (0.95 -> 95)          *)
(*   time                               hours                              *)
(*                                                                         *)
(* A Python dict of metrics is a record over all the keys the code reads;  *)
(* a key that is not in the dict holds Absent, a key whose value is None   *)
(* holds None.                                                             *)
(***************************************************************************)
EXTENDS Integers, Sequences, FiniteSets, TLC

VARIABLES
    (* --- one call of a decision function (its arguments and what it returns) *)
    fn,             \* the function called
    metrics,        \* its dict argument (on_chain_data / token_params / token_data)
    position_arg,   \* its DAMMPosition argument
    oracle_ok,      \* TRUE: metta.run returns, FALSE: metta.run raises
    now,            \* datetime.utcnow(), in hours
    result,         \* the dict it returns, Raised when it raises, NoResult before
    pc,             \* "start" before the call, "done" after it, "again" after a second run,
                    \* "rebalanced" after execute_rebalancing on the analysed position
    returned,       \* what the calls of execute_rebalancing returned, in order
    result_again,   \* what a second run of the same call returns, NoResult before it
    (* --- the process: agent_runner.py runs the one agent UAGENT_NAME names *)
    uagent_name,    \* the agent that runs; "none" for a direct call of a function
    (* --- LiquidityOptimizerAgent.py *)
    lo_agent_state, \* agent_state: monitored_positions, rebalancing_history, performance_metrics
    lo_sol_sent,    \* the instructions handed to send_to_solana_agent, in order
    lo_metta_kb,    \* the facts metta.run has stored, in order
    lo_sent,        \* what the handler of the last message sent with ctx.send
    lo_handled,     \* messages handled so far
    lo_msg,         \* the last message handled, with its sender
    lo_removed,     \* for each position id, the record remove_position deleted last
    mon_pc,         \* monitor_positions: "idle", or the place in the loop body
    mon_todo,       \* the items of the tick's list(...) snapshot still to visit
    mon_position,   \* the loop body's DAMMPosition
    mon_oracle_ok,  \* whether metta.run returned in the loop body's analysis
    mon_analysis,   \* the loop body's analysis
    mon_status,     \* how the last tick ended: "completed" or "raised"
    mon_ticks,      \* ticks started so far
    mon_registered, \* the position ids monitored when the tick started, in dict order
    mon_log,        \* the position ids the tick has analysed so far, in order
    (* --- LaunchCoordinatorAgent.py *)
    lc_agent_state, \* agent_state: active_launches, historical_patterns
    lc_metta_kb,    \* the launch facts metta.run has stored, in order
    lc_sent,        \* what the handler of the last message sent with ctx.send
    lc_status,      \* how that handler ended: "completed", or the exception that left it
    lc_handled,     \* messages handled so far
    lc_msg,         \* the last message handled, with its sender
    (* --- RiskAnalyzerAgent.py *)
    ra_agent_state, \* agent_state: monitored_tokens, fraud_patterns_detected, alerts_sent
    ra_sent,        \* what the handler of the last message sent with ctx.send
    ra_handled,     \* messages taken from the queue so far
    ra_msg,         \* the last message taken, with its sender
    ra_msg_pc,      \* handle_messages: "idle", or the await it is suspended at
    ra_msg_data,    \* get_risk_report: on_chain_data
    ra_msg_analysis,\* get_risk_report: risk_analysis
    ra_mon_pc,      \* monitor_active_tokens: "idle", or the place in the loop body
    ra_mon_todo,    \* the items of the tick's list(...) snapshot still to visit
    ra_mon_token,   \* the loop body's token_address
    ra_mon_data,    \* the loop body's on_chain_data
    ra_mon_analysis,\* the loop body's risk_analysis
    ra_mon_ticks,   \* ticks started so far
    ra_mon_registered, \* the tokens monitored when the tick started, in dict order
    ra_mon_log      \* the tokens the tick has analysed so far, in order

call_vars == <<fn, metrics, position_arg, oracle_ok, returned, result, pc, result_again, returned>>
lo_vars == <<lo_agent_state, lo_sol_sent, lo_metta_kb, lo_sent, lo_handled, lo_msg, lo_removed>>
mon_vars == <<mon_pc, mon_todo, mon_position, mon_oracle_ok, mon_analysis, mon_status,
              mon_ticks, mon_registered, mon_log>>
lc_vars == <<lc_agent_state, lc_metta_kb, lc_sent, lc_status, lc_handled, lc_msg>>
ra_msg_vars == <<ra_sent, ra_handled, ra_msg, ra_msg_pc, ra_msg_data, ra_msg_analysis>>
ra_mon_vars == <<ra_mon_pc, ra_mon_todo, ra_mon_token, ra_mon_data, ra_mon_analysis,
                 ra_mon_ticks, ra_mon_registered, ra_mon_log>>
ra_vars == <<ra_agent_state, ra_msg_vars, ra_mon_vars>>
vars == <<call_vars, now, uagent_name, lo_vars, mon_vars, lc_vars, ra_vars>>

-----------------------------------------------------------------------------
(* Bounds of the model *)

\* the time of a direct call and of an agent's start, in hours
CallTime == 48
\* hours the clock may move on while an agent runs
MaxElapsed == 1
\* interval ticks an agent starts
MaxTicks == 2
\* messages an agent handles
MaxMessages == 2

Senders == {"sender1", "sender2"}
PositionIds == {"p1", "p2"}
MsgIds == {"m1", "m2"}
TokenAddresses == {"t1", "t2"}
\* actions of messages that handle_messages of RiskAnalyzerAgent.py has no branch for
OtherActions == {"remove_token", "stop_monitoring"}

\* the keyword sets of the chat texts, and the content items of a chat message
Texts ==
    {{"launch", "token"}, {"launch", "token", "status"}, {"status"},
     {"risk", "analysis"}, {"approve"}, {"reject"}, {}}
ContentItems == {[type |-> "text", text |-> t] : t \in Texts} \cup {[type |-> "other", text |-> {}]}
\* items a chat message holds at most
MaxContent == 2
\* the length of the price histories detect_rug_pull_pattern is called on,
\* apart from the long ones
MaxPrices == 5
\* direct calls of harvest_fees_if_profitable at most
MaxHarvests == 2
\* direct calls of execute_rebalancing at most
MaxRebalances == 2
\* messages LiquidityOptimizerAgent.py handles at most
MaxPositionMessages == 3
Contents == UNION {[1..n -> ContentItems] : n \in 0..MaxContent}
ChatMessages == [msg_id : MsgIds, content : Contents]

\* the same for the chat texts of RiskAnalyzerAgent.py
RA_Texts == {{"analyze", "risk"}, {"status"}, {"alert"}, {}}
RA_ChatMessages ==
    LET items == {[type |-> "text", text |-> t] : t \in RA_Texts}
                     \cup {[type |-> "other", text |-> {}]}
    IN  [msg_id : MsgIds, content : UNION {[1..n -> items] : n \in 0..MaxContent}]

SolanaExecutionResults ==
    {[action |-> a, token_mint |-> "mint1", name |-> "DogeCoin2.0",
      graduation_threshold |-> 100000] : a \in {"launch_complete", "launch_failed", "other"}}

-----------------------------------------------------------------------------
(* Python values *)

Absent == [t |-> "absent"]
None == [t |-> "none"]
Num(n) == [t |-> "num", v |-> n]
Bool(b) == [t |-> "bool", v |-> b]

NoResult == [t |-> "no_result"]
Raised == [t |-> "raised"]

\* no message has been handled yet
NoMessage == [sender |-> "", msg |-> None]

\* dict.get(key, default)
Get(d, key, default) == IF d[key] = Absent THEN default ELSE d[key]

\* key in dict
Has(d, key) == d[key] # Absent

\* dict.get(key) is not None
IsNotNone(d, key) == d[key] # Absent /\ d[key] # None

\* not x, for x a bool or None
Not(x) == IF x = None THEN TRUE ELSE ~x.v

\* x < n raises TypeError for x = None
CompareRaises(x) == x = None

RECURSIVE SumSeq(_)
SumSeq(s) == IF s = <<>> THEN 0 ELSE Head(s) + SumSeq(Tail(s))

\* the empty dict: no key is present
NoMetrics ==
    [liquidity_lock_duration |-> Absent, team_verified |-> Absent,
     vesting_enabled |-> Absent, contract_verified |-> Absent,
     top_holder_percentage |-> Absent, graduation_time_hours |-> Absent,
     liquidity_locked |-> Absent, holder_count |-> Absent, name |-> Absent]

Max(a, b) == IF a >= b THEN a ELSE b
Min(a, b) == IF a <= b THEN a ELSE b

-----------------------------------------------------------------------------
(* RiskAnalyzerAgent.py: analyze_token_risk_with_metta *)

\* agent_state["alert_thresholds"]["holder_concentration"], in tenths of a percent
holder_concentration_threshold == 300

\* the six checks of lines 100-130, in the order the code evaluates them; each
\* holds the red flag it appends and the deduction it makes when it fires
RA_check_liquidity_lock(d) ==
    [flag |-> "No liquidity lock (30+ days recommended)",
     fires |-> Get(d, "liquidity_lock_duration", Num(0)).v < 30,
     deduction |-> 20]

\* RA_check_team with the deduction of the vesting check: a faulty variant
RA_check_team_Smaller(d) ==
    [flag |-> "Anonymous team",
     fires |-> Not(Get(d, "team_verified", Bool(FALSE))),
     deduction |-> 10]

RA_check_team(d) ==
    [flag |-> "Anonymous team",
     fires |-> Not(Get(d, "team_verified", Bool(FALSE))),
     deduction |-> 15]

RA_check_vesting(d) ==
    [flag |-> "No vesting schedule",
     fires |-> Not(Get(d, "vesting_enabled", Bool(FALSE))),
     deduction |-> 10]

RA_check_contract(d) ==
    [flag |-> "Contract not verified",
     fires |-> Not(Get(d, "contract_verified", Bool(FALSE))),
     deduction |-> 10]

\* RA_check_holder_concentration firing at the threshold itself: a faulty variant
RA_check_holder_concentration_AtLeast(d) ==
    [flag |-> "High holder concentration",
     fires |-> Get(d, "top_holder_percentage", Num(0)).v >= holder_concentration_threshold,
     deduction |-> 20]

RA_check_holder_concentration(d) ==
    [flag |-> "High holder concentration",
     fires |-> Get(d, "top_holder_percentage", Num(0)).v > holder_concentration_threshold,
     deduction |-> 20]

RA_check_rapid_graduation(d) ==
    [flag |-> "Rapid graduation (<24h) - possible pump & dump",
     fires |-> Get(d, "graduation_time_hours", Num(1000)).v < 24,
     deduction |-> 15]

RA_checks(d) ==
    <<RA_check_liquidity_lock(d), RA_check_team(d), RA_check_vesting(d),
      RA_check_contract(d), RA_check_holder_concentration(d),
      RA_check_rapid_graduation(d)>>

\* the checks of a list that fire, in the list's order
RECURSIVE Fired(_)
Fired(checks) ==
    IF checks = <<>> THEN <<>>
    ELSE (IF Head(checks).fires THEN <<Head(checks)>> ELSE <<>>) \o Fired(Tail(checks))

Flags(checks) == [i \in 1..Len(checks) |-> checks[i].flag]
Deductions(checks) == [i \in 1..Len(checks) |-> checks[i].deduction]

\* a comparison of lines 101-128 raises TypeError on a None operand
RA_checks_raise(d) ==
    \/ CompareRaises(Get(d, "liquidity_lock_duration", Num(0)))
    \/ CompareRaises(Get(d, "top_holder_percentage", Num(0)))
    \/ CompareRaises(Get(d, "graduation_time_hours", Num(1000)))

\* RA_risk_level with the band edges counted into the lower band: a faulty variant
RA_risk_level_AtMost(risk_score) ==
    IF risk_score <= 50 THEN "HIGH" ELSE IF risk_score <= 70 THEN "MEDIUM" ELSE "LOW"

\* line 133, on the score before it is clamped
RA_risk_level(risk_score) ==
    IF risk_score < 50 THEN "HIGH" ELSE IF risk_score < 70 THEN "MEDIUM" ELSE "LOW"

\* RA_confidence counting every key of the dict, a None value too: a faulty variant
RA_confidence_CountsNone(d) ==
    LET present == {k \in {"liquidity_lock_duration", "team_verified", "vesting_enabled",
                           "contract_verified", "top_holder_percentage"} : Has(d, k)}
    IN  18 * Cardinality(present) + 10

\* lines 136-144: 0.9 * (present fields / 5) + 0.1
RA_confidence(d) ==
    LET present == {k \in {"liquidity_lock_duration", "team_verified", "vesting_enabled",
                           "contract_verified", "top_holder_percentage"} : IsNotNone(d, k)}
    IN  18 * Cardinality(present) + 10

\* RA_returned_score without the clamp: a faulty variant
RA_returned_score_NoClamp(risk_score) == risk_score

\* max(0, risk_score) of line 147
RA_returned_score(risk_score) == Max(0, risk_score)

\* RA_fraud_probability without its clamp: a faulty variant
RA_fraud_probability_NoClamp(risk_score) == 100 - risk_score

\* max(0, min(1, (10 - risk_score) / 10)) of line 151
RA_fraud_probability(risk_score) == Max(0, Min(100, 100 - risk_score))

get_risk_recommendation(risk_score) ==
    IF risk_score < 30 THEN "HIGH RISK - Do not invest"
    ELSE IF risk_score < 50 THEN "MEDIUM-HIGH RISK - Proceed with extreme caution"
    ELSE IF risk_score < 70 THEN "MEDIUM RISK - Acceptable for experienced investors"
    ELSE IF risk_score < 85 THEN "LOW-MEDIUM RISK - Generally safe"
    ELSE "LOW RISK - Strong safety indicators"

\* the except branch, lines 155-164
RA_fallback ==
    [risk_score |-> 50,
     risk_level |-> "MEDIUM",
     red_flags |-> <<"Unable to complete analysis">>,
     confidence |-> 50,
     fraud_probability |-> 50,
     recommendation |-> "Proceed with caution - analysis incomplete"]

analyze_token_risk_with_metta(d, ok) ==
    IF ~ok \/ RA_checks_raise(d) THEN RA_fallback
    ELSE LET fired == Fired(RA_checks(d))
             risk_score == 75 - SumSeq(Deductions(fired))
         IN  [risk_score |-> RA_returned_score(risk_score),
              risk_level |-> RA_risk_level(risk_score),
              red_flags |-> Flags(fired),
              confidence |-> RA_confidence(d),
              fraud_probability |-> RA_fraud_probability(risk_score),
              recommendation |-> get_risk_recommendation(risk_score)]

-----------------------------------------------------------------------------
(* LaunchCoordinatorAgent.py: analyze_risk_with_metta, query_metta_for_launch_strategy *)

\* the three checks of lines 158-168
LC_check_liquidity_lock(d) ==
    [flag |-> "No liquidity lock (30+ days recommended)",
     fires |-> Get(d, "liquidity_lock_duration", Num(0)).v < 30,
     deduction |-> 20]

LC_check_team(d) ==
    [flag |-> "Anonymous team",
     fires |-> Not(Get(d, "team_verified", Bool(FALSE))),
     deduction |-> 15]

LC_check_vesting(d) ==
    [flag |-> "No vesting schedule",
     fires |-> Not(Get(d, "vesting_enabled", Bool(FALSE))),
     deduction |-> 10]

LC_checks(d) == <<LC_check_liquidity_lock(d), LC_check_team(d), LC_check_vesting(d)>>

LC_checks_raise(d) == CompareRaises(Get(d, "liquidity_lock_duration", Num(0)))

\* line 172, on the score before it is clamped
LC_risk_level(risk_score) ==
    IF risk_score < 50 THEN "HIGH" ELSE IF risk_score < 70 THEN "MEDIUM" ELSE "LOW"

\* max(0, risk_score) of line 171
LC_returned_score(risk_score) == Max(0, risk_score)

\* the except branch, lines 177-184
LC_fallback ==
    [risk_score |-> 50,
     risk_level |-> "MEDIUM",
     red_flags |-> <<"Unable to analyze">>,
     confidence |-> 50]

analyze_risk_with_metta(d, ok) ==
    IF ~ok \/ LC_checks_raise(d) THEN LC_fallback
    ELSE LET fired == Fired(LC_checks(d))
             risk_score == 75 - SumSeq(Deductions(fired))
         IN  [risk_score |-> LC_returned_score(risk_score),
              risk_level |-> LC_risk_level(risk_score),
              red_flags |-> Flags(fired),
              confidence |-> 92]

\* lines 103-114
LC_optimal_config ==
    [presale_mode |-> "FCFS",
     graduation_threshold |-> 100000,
     initial_liquidity |-> 50000,
     vesting_immediate |-> 50,
     vesting_gradual |-> 50,
     initial_price |-> 1,              \* 0.001, in thousandths
     curve_type |-> "EXPONENTIAL",
     anti_sniper_duration |-> 300,
     confidence |-> 87,
     reasoning |-> "Based on 50 similar successful launches in MeTTa knowledge graph"]

\* lines 122-133
LC_default_config ==
    [presale_mode |-> "FCFS",
     graduation_threshold |-> 50000,
     initial_liquidity |-> 25000,
     vesting_immediate |-> 50,
     vesting_gradual |-> 50,
     initial_price |-> 1,
     curve_type |-> "LINEAR",
     anti_sniper_duration |-> 180,
     confidence |-> 60,
     reasoning |-> "Conservative default parameters (MeTTa unavailable)"]

\* token_params['name'] of lines 87 and 92 is read before the try: KeyError
\* when the key is missing
query_metta_for_launch_strategy(d, ok) ==
    IF ~Has(d, "name") THEN Raised
    ELSE IF ok THEN LC_optimal_config ELSE LC_default_config

-----------------------------------------------------------------------------
(* ml-models/risk_scoring/model.py: RiskScoringModel.predict *)

\* prepare_features divides these by a number: TypeError on None
RSM_prepare_features_raises(d) ==
    \/ Get(d, "liquidity_lock_duration", Num(0)) = None
    \/ Get(d, "top_holder_percentage", Num(0)) = None
    \/ Get(d, "graduation_time_hours", Num(168)) = None
    \/ Get(d, "holder_count", Num(0)) = None

\* lines 111-116: no lock at all, else a short lock
RSM_check_liquidity_lock(d) ==
    IF Not(Get(d, "liquidity_locked", Bool(FALSE)))
    THEN [flag |-> "No liquidity lock", fires |-> TRUE, deduction |-> 25]
    ELSE [flag |-> "Short lock duration",
          fires |-> Get(d, "liquidity_lock_duration", Num(0)).v < 30,
          deduction |-> 15]

RSM_check_team(d) ==
    [flag |-> "Anonymous team",
     fires |-> Not(Get(d, "team_verified", Bool(FALSE))),
     deduction |-> 15]

RSM_check_contract(d) ==
    [flag |-> "Contract not verified",
     fires |-> Not(Get(d, "contract_verified", Bool(FALSE))),
     deduction |-> 10]

RSM_check_vesting(d) ==
    [flag |-> "No vesting schedule",
     fires |-> Not(Get(d, "vesting_enabled", Bool(FALSE))),
     deduction |-> 10]

\* lines 134-140: high above 30%, else moderate above 20%
RSM_check_holder_concentration(d) ==
    LET top_holder_pct == Get(d, "top_holder_percentage", Num(0)).v
    IN  IF top_holder_pct > 300
        THEN [flag |-> "High holder concentration", fires |-> TRUE, deduction |-> 20]
        ELSE [flag |-> "Moderate holder concentration",
              fires |-> top_holder_pct > 200,
              deduction |-> 10]

RSM_check_rapid_graduation(d) ==
    [flag |-> "Rapid graduation (<24h)",
     fires |-> Get(d, "graduation_time_hours", Num(168)).v < 24,
     deduction |-> 15]

RSM_checks(d) ==
    <<RSM_check_liquidity_lock(d), RSM_check_team(d), RSM_check_contract(d),
      RSM_check_vesting(d), RSM_check_holder_concentration(d),
      RSM_check_rapid_graduation(d)>>

\* line 149: max(0, min(10, risk_score))
RSM_clamp(risk_score) == Max(0, Min(100, risk_score))

\* lines 152-157, on the clamped score
RSM_risk_level(risk_score) ==
    IF risk_score < 40 THEN "HIGH" ELSE IF risk_score < 70 THEN "MEDIUM" ELSE "LOW"

\* lines 163-171: 0.6 + 0.35 * (fields in token_data / 5)
RSM_confidence(d) ==
    LET given == {k \in {"liquidity_locked", "team_verified", "contract_verified",
                         "vesting_enabled", "holder_count"} : Has(d, k)}
    IN  60 + 7 * Cardinality(given)

RSM_get_recommendation(risk_score) ==
    IF risk_score < 30 THEN "HIGH RISK - Do not invest"
    ELSE IF risk_score < 50 THEN "MEDIUM-HIGH RISK - Proceed with extreme caution"
    ELSE IF risk_score < 70 THEN "MEDIUM RISK - Acceptable for experienced investors"
    ELSE IF risk_score < 85 THEN "LOW-MEDIUM RISK - Generally safe with standard due diligence"
    ELSE "LOW RISK - Strong safety indicators"

\* t is datetime.utcnow() at the call
RSM_predict(d, t) ==
    IF RSM_prepare_features_raises(d) THEN Raised
    ELSE LET fired == Fired(RSM_checks(d))
             risk_score == RSM_clamp(75 - SumSeq(Deductions(fired)))
         IN  [risk_score |-> risk_score,
              rug_pull_probability |-> Max(0, Min(100, 100 - risk_score)),
              risk_level |-> RSM_risk_level(risk_score),
              red_flags |-> Flags(fired),
              confidence |-> RSM_confidence(d),
              recommendation |-> RSM_get_recommendation(risk_score),
              timestamp |-> t]

-----------------------------------------------------------------------------
(* LiquidityOptimizerAgent.py: DAMMPosition, analyze_rebalancing_opportunity_with_metta *)

\* a DAMMPosition that starts with a last rebalance long ago instead of None:
\* a faulty variant
DAMMPosition_RebalancedLongAgo(position_id, pool_address, token_a, token_b) ==
    [position_id |-> position_id,
     pool_address |-> pool_address,
     token_a |-> token_a,
     token_b |-> token_b,
     current_range |-> [lower |-> 0, upper |-> 0],
     liquidity_amount |-> 0,
     unclaimed_fees |-> 0,
     apr |-> 0,
     impermanent_loss |-> 0,
     last_rebalance |-> [t |-> "num", v |-> 0]]

\* DAMMPosition.__init__
DAMMPosition(position_id, pool_address, token_a, token_b) ==
    [position_id |-> position_id,
     pool_address |-> pool_address,
     token_a |-> token_a,
     token_b |-> token_b,
     current_range |-> [lower |-> 0, upper |-> 0],
     liquidity_amount |-> 0,
     unclaimed_fees |-> 0,
     apr |-> 0,
     impermanent_loss |-> 0,
     last_rebalance |-> None]

\* lines 90-96: the range the code takes as the oracle's answer
optimal_range ==
    [lower |-> 95,
     upper |-> 105,
     confidence |-> 89,
     expected_apr_improvement |-> 125,
     reasoning |-> "Based on historical volatility and volume patterns"]

\* timedelta.days of (t - since): whole days, rounded down
Days(t, since) == (t - since) \div 24

\* LO_should_rebalance without its third operand: a faulty variant
LO_should_rebalance_NoCooldown(range, position, t) ==
    IF ~(range.expected_apr_improvement > 50) THEN Bool(FALSE)
    ELSE Bool(range.confidence > 80)

\* lines 99-103.  Python's `and` evaluates the third operand only when the first
\* two are true, and datetime.utcnow() - None raises TypeError
LO_should_rebalance(range, position, t) ==
    IF ~(range.expected_apr_improvement > 50) THEN Bool(FALSE)
    ELSE IF ~(range.confidence > 80) THEN Bool(FALSE)
    ELSE IF position.last_rebalance = None THEN Raised
    ELSE Bool(Days(t, position.last_rebalance.v) >= 1)

\* LO_fallback proposing the rebalance: a faulty variant
LO_fallback_Rebalance(error) ==
    [should_rebalance |-> TRUE, optimal_range |-> optimal_range, error |-> error]

\* the except branch, lines 113-118
LO_fallback(error) == [should_rebalance |-> FALSE, error |-> error]

\* t is datetime.utcnow() at line 102
analyze_rebalancing_opportunity_with_metta(position, ok, t) ==
    IF ~ok THEN LO_fallback("metta.run failed")
    ELSE LET should_rebalance == LO_should_rebalance(optimal_range, position, t)
         IN  IF should_rebalance = Raised THEN LO_fallback("TypeError")
             ELSE [should_rebalance |-> should_rebalance.v,
                   optimal_range |-> optimal_range,
                   current_efficiency |-> 75,
                   estimated_gas_cost |-> 1,
                   estimated_profit |->
                       optimal_range.expected_apr_improvement * position.liquidity_amount]

\* a variant of harvest_fees_if_profitable that harvests only above 1.0, as
\* the test of monitor_positions does
harvest_fees_if_profitable_Above(position, agent_state, sol_sent) ==
    IF position.unclaimed_fees <= 1000
    THEN [ret |-> FALSE, position |-> position, agent_state |-> agent_state,
          sol_sent |-> sol_sent]
    ELSE [ret |-> TRUE,
          position |-> [position EXCEPT !.unclaimed_fees = 0],
          agent_state |->
              [agent_state EXCEPT !.performance_metrics.total_fees_harvested =
                                      @ + position.unclaimed_fees],
          sol_sent |-> Append(sol_sent, [action |-> "harvest_fees",
                                         position_id |-> position.position_id,
                                         pool_address |-> position.pool_address])]

\* lines 121-144; fees in thousandths of a dollar.  Returns what the call leaves:
\* its return value, the position, total_fees_harvested and the instructions sent
harvest_fees_if_profitable(position, agent_state, sol_sent) ==
    IF position.unclaimed_fees < 1000          \* < Decimal("1.0")
       \/ position.unclaimed_fees < 2 * 1      \* < gas_cost * 2, gas_cost 0.001
    THEN [ret |-> FALSE, position |-> position, agent_state |-> agent_state,
          sol_sent |-> sol_sent]
    ELSE [ret |-> TRUE,
          position |-> [position EXCEPT !.unclaimed_fees = 0],
          agent_state |->
              [agent_state EXCEPT !.performance_metrics.total_fees_harvested =
                                      @ + position.unclaimed_fees],
          sol_sent |-> Append(sol_sent, [action |-> "harvest_fees",
                                         position_id |-> position.position_id,
                                         pool_address |-> position.pool_address])]

\* lines 203-219: the fact handed to metta.run; it reads the position after
\* execute_rebalancing has already given it the new range
LO_rebalancing_data(position, range, success, t) ==
    [position |-> position.position_id,
     pool |-> position.pool_address,
     timestamp |-> t,
     old_range_lower |-> position.current_range.lower,
     old_range_upper |-> position.current_range.upper,
     new_range_lower |-> range.lower,
     new_range_upper |-> range.upper,
     expected_improvement |-> range.expected_apr_improvement,
     success |-> success]

\* lines 147-200.  send_to_solana_agent returns {"success": True}; kb_ok says
\* whether the metta.run of update_metta_with_rebalancing_result returns.  The
\* success branch updates the position and the counters, appends the history
\* entry and then calls update_metta_with_rebalancing_result inside the try: when
\* that raises, the except branch counts a failure as well and returns False.
execute_rebalancing(position, range, kb_ok, agent_state, sol_sent, metta_kb, t) ==
    LET instruction == [action |-> "rebalance_position",
                        position_id |-> position.position_id,
                        pool_address |-> position.pool_address,
                        new_range |-> [lower |-> range.lower, upper |-> range.upper],
                        liquidity_amount |-> position.liquidity_amount]
        moved == [position EXCEPT !.current_range = [lower |-> range.lower,
                                                     upper |-> range.upper],
                                  !.last_rebalance = Num(t)]
        entry == [position_id |-> position.position_id,
                  timestamp |-> t,
                  old_range |-> moved.current_range,
                  new_range |-> range,
                  expected_improvement |-> range.expected_apr_improvement]
        recorded == [agent_state EXCEPT
                        !.performance_metrics.successful_rebalances = @ + 1,
                        !.rebalancing_history = Append(@, entry)]
    IN  IF kb_ok
        THEN [ret |-> TRUE, position |-> moved, agent_state |-> recorded,
              sol_sent |-> Append(sol_sent, instruction),
              metta_kb |-> Append(metta_kb, LO_rebalancing_data(moved, range, TRUE, t))]
        ELSE [ret |-> FALSE, position |-> moved,
              agent_state |-> [recorded EXCEPT
                                  !.performance_metrics.failed_rebalances = @ + 1],
              sol_sent |-> Append(sol_sent, instruction),
              metta_kb |-> metta_kb]

-----------------------------------------------------------------------------
(* Python dicts that keep insertion order: sequences of [key, value] *)

DictKeys(dict) == [i \in 1..Len(dict) |-> dict[i].key]
DictHas(dict, key) == \E i \in 1..Len(dict) : dict[i].key = key
DictIndex(dict, key) == CHOOSE i \in 1..Len(dict) : dict[i].key = key
DictGet(dict, key) == dict[DictIndex(dict, key)].value

\* dict[key] = value: a new key goes last, a known key keeps its place
DictSet(dict, key, value) ==
    IF DictHas(dict, key)
    THEN [dict EXCEPT ![DictIndex(dict, key)].value = value]
    ELSE Append(dict, [key |-> key, value |-> value])

\* a del that empties the dict: a faulty variant
DictDel_Clear(dict, key) == <<>>

\* del dict[key]
DictDel(dict, key) ==
    LET i == DictIndex(dict, key)
    IN  SubSeq(dict, 1, i - 1) \o SubSeq(dict, i + 1, Len(dict))

\* a variant of DictItems that lists the items last to first
DictItems_Reversed(dict) == [i \in 1..Len(dict) |-> dict[Len(dict) + 1 - i]]

\* list(dict.items()): the items at the time of the call, in the dict's order
DictItems(dict) == dict

-----------------------------------------------------------------------------
(* LiquidityOptimizerAgent.py: the agent's state and handlers *)

\* lines 40-50
LO_initial_state ==
    [monitored_positions |-> <<>>,
     rebalancing_history |-> <<>>,
     performance_metrics |-> [total_fees_harvested |-> 0,
                              successful_rebalances |-> 0,
                              failed_rebalances |-> 0,
                              avg_apr_improvement |-> 0]]

LO_running == uagent_name = "liquidity_optimizer"

\* the tick ends: monitor_positions returns, or an exception leaves it
MonitorEnds(status) ==
    /\ mon_pc' = "idle"
    /\ mon_todo' = <<>>
    /\ mon_status' = status

\* line 229: the interval fires and the loop takes its snapshot
\* list(agent_state["monitored_positions"].items())
MonitorStart ==
    /\ LO_running /\ mon_pc = "idle" /\ mon_ticks < MaxTicks
    /\ mon_ticks' = mon_ticks + 1
    /\ IF lo_agent_state.monitored_positions = <<>>
       THEN MonitorEnds("completed")
       ELSE /\ mon_pc' = "loop"
            /\ mon_todo' = DictItems(lo_agent_state.monitored_positions)
            /\ mon_status' = "running"
    /\ mon_registered' = DictKeys(lo_agent_state.monitored_positions)
    /\ mon_log' = <<>>
    /\ UNCHANGED <<call_vars, now, uagent_name, lo_vars, mon_position, mon_oracle_ok,
                   mon_analysis, lc_vars, ra_vars>>

\* lines 230-238: the position object is built from the snapshot's item and
\* update_position_metrics (a stub that does nothing) is awaited
MonitorFetch ==
    /\ LO_running /\ mon_pc = "loop"
    /\ LET item == Head(mon_todo)
       IN  mon_position' = DAMMPosition(item.key, item.value.pool_address,
                                        item.value.token_a, item.value.token_b)
    /\ mon_pc' = "fetched"
    /\ UNCHANGED <<call_vars, now, uagent_name, lo_vars, mon_todo, mon_oracle_ok,
                   mon_analysis, mon_status, mon_ticks, mon_registered, mon_log,
                   lc_vars, ra_vars>>

\* lines 240-245: fees are harvested above $1, then the analysis is awaited
MonitorAnalyze ==
    /\ LO_running /\ mon_pc = "fetched"
    /\ \E ok \in BOOLEAN :
         LET harvest == IF mon_position.unclaimed_fees > 1000
                        THEN harvest_fees_if_profitable(mon_position, lo_agent_state,
                                                        lo_sol_sent)
                        ELSE [ret |-> FALSE, position |-> mon_position,
                              agent_state |-> lo_agent_state, sol_sent |-> lo_sol_sent]
         IN  /\ mon_oracle_ok' = ok
             /\ mon_position' = harvest.position
             /\ lo_agent_state' = harvest.agent_state
             /\ lo_sol_sent' = harvest.sol_sent
             /\ mon_analysis' =
                    analyze_rebalancing_opportunity_with_metta(harvest.position, ok, now)
    /\ mon_pc' = "analyzed"
    /\ mon_log' = Append(mon_log, mon_position.position_id)
    /\ UNCHANGED <<call_vars, now, uagent_name, lo_metta_kb, lo_sent, lo_handled, lo_msg, lo_removed,
                   mon_todo, mon_status, mon_ticks, mon_registered, lc_vars, ra_vars>>

\* line 247
LO_monitor_rebalances(analysis) == analysis.should_rebalance

\* lines 247-254: the position is rebalanced when the analysis says so, then
\* last_check is written into agent_state["monitored_positions"][position_id]:
\* KeyError when the position is no longer monitored.  Line 249 reads
\* analysis['optimal_range']: KeyError when the analysis has none.
MonitorAct ==
    /\ LO_running /\ mon_pc = "analyzed"
    /\ \E kb_ok \in (IF LO_monitor_rebalances(mon_analysis) THEN BOOLEAN ELSE {TRUE}) :
         LET rebalances == LO_monitor_rebalances(mon_analysis)
             no_range == rebalances /\ "optimal_range" \notin DOMAIN mon_analysis
             done == IF rebalances /\ ~no_range
                     THEN execute_rebalancing(mon_position, mon_analysis.optimal_range,
                                              kb_ok, lo_agent_state, lo_sol_sent,
                                              lo_metta_kb, now)
                     ELSE [ret |-> FALSE, position |-> mon_position,
                           agent_state |-> lo_agent_state, sol_sent |-> lo_sol_sent,
                           metta_kb |-> lo_metta_kb]
             id == mon_position.position_id
             positions == done.agent_state.monitored_positions
         IN  /\ mon_position' = done.position
             /\ lo_sol_sent' = done.sol_sent
             /\ lo_metta_kb' = done.metta_kb
             /\ IF no_range \/ ~DictHas(positions, id)
                THEN /\ lo_agent_state' = done.agent_state
                     /\ MonitorEnds("raised")
                ELSE /\ lo_agent_state' =
                            [done.agent_state EXCEPT !.monitored_positions =
                                DictSet(positions, id,
                                        [DictGet(positions, id) EXCEPT
                                             !.last_check = Num(now)])]
                     /\ IF Len(mon_todo) > 1
                        THEN /\ mon_pc' = "loop"
                             /\ mon_todo' = Tail(mon_todo)
                             /\ mon_status' = mon_status
                        ELSE MonitorEnds("completed")
    /\ UNCHANGED <<call_vars, now, uagent_name, lo_sent, lo_handled, lo_msg, lo_removed, mon_oracle_ok,
                   mon_analysis, mon_ticks, mon_registered, mon_log, lc_vars, ra_vars>>

\* a variant of LO_add_position that updates the record of a known position
\* field by field and leaves its last_check alone
LO_add_position_KeepLastCheck(positions, position_id, pool_address, token_a, token_b, utcnow) ==
    DictSet(positions, position_id,
            [pool_address |-> pool_address,
             token_a |-> token_a,
             token_b |-> token_b,
             added_at |-> utcnow,
             last_check |-> IF DictHas(positions, position_id)
                            THEN DictGet(positions, position_id).last_check
                            ELSE None])

\* lines 268-274: the record of the position is assigned whole
LO_add_position(positions, position_id, pool_address, token_a, token_b, utcnow) ==
    DictSet(positions, position_id, [pool_address |-> pool_address,
                                     token_a |-> token_a,
                                     token_b |-> token_b,
                                     added_at |-> utcnow,
                                     last_check |-> None])

\* lines 264-280
LO_handle_add_position(sender, position_id, pool_address, token_a, token_b) ==
    /\ LO_running /\ lo_handled < MaxPositionMessages
    /\ lo_handled' = lo_handled + 1
    /\ lo_agent_state' =
           [lo_agent_state EXCEPT !.monitored_positions =
               LO_add_position(@, position_id, pool_address, token_a, token_b, now)]
    /\ lo_sent' = <<[to |-> sender, action |-> "position_added",
                     position_id |-> position_id, status |-> "monitoring"]>>
    /\ lo_msg' = [sender |-> sender,
                  msg |-> [action |-> "add_position", position_id |-> position_id,
                           pool_address |-> pool_address, token_a |-> token_a,
                           token_b |-> token_b]]
    /\ UNCHANGED <<lo_removed, call_vars, now, uagent_name, lo_sol_sent, lo_metta_kb, mon_vars, lc_vars, ra_vars>>

\* lines 282-289
LO_handle_get_performance(sender) ==
    /\ LO_running /\ lo_handled < MaxPositionMessages
    /\ lo_handled' = lo_handled + 1
    /\ LET history == lo_agent_state.rebalancing_history
       IN  lo_sent' = <<[to |-> sender, action |-> "performance_report",
                         metrics |-> lo_agent_state.performance_metrics,
                         monitored_positions_count |->
                             Len(lo_agent_state.monitored_positions),
                         recent_rebalances |->
                             SubSeq(history, Max(1, Len(history) - 9), Len(history))]>>
    /\ lo_msg' = [sender |-> sender, msg |-> [action |-> "get_performance"]]
    /\ UNCHANGED <<lo_removed, call_vars, now, uagent_name, lo_agent_state, lo_sol_sent, lo_metta_kb,
                   mon_vars, lc_vars, ra_vars>>

\* lines 291-296
LO_handle_remove_position(sender, position_id) ==
    /\ LO_running /\ lo_handled < MaxPositionMessages
    /\ lo_handled' = lo_handled + 1
    /\ lo_agent_state' =
           IF DictHas(lo_agent_state.monitored_positions, position_id)
           THEN [lo_agent_state EXCEPT !.monitored_positions = DictDel(@, position_id)]
           ELSE lo_agent_state
    /\ lo_sent' = <<>>
    /\ lo_msg' = [sender |-> sender,
                  msg |-> [action |-> "remove_position", position_id |-> position_id]]
    /\ lo_removed' =
           IF DictHas(lo_agent_state.monitored_positions, position_id)
           THEN [lo_removed EXCEPT
                     ![position_id] = DictGet(lo_agent_state.monitored_positions, position_id)]
           ELSE lo_removed
    /\ UNCHANGED <<call_vars, now, uagent_name, lo_sol_sent, lo_metta_kb, mon_vars, lc_vars, ra_vars>>

-----------------------------------------------------------------------------
(* LaunchCoordinatorAgent.py: the agent's state and handlers *)

\* a variant of ChatAcknowledgement that carries an id of its own
ChatAcknowledgement_OwnId(sender, msg, utcnow) ==
    [to |-> sender, kind |-> "ack", timestamp |-> utcnow, acknowledged_msg_id |-> "m0"]

\* lines 195-198 (RiskAnalyzerAgent.py 242-245): the acknowledgement sent first
ChatAcknowledgement(sender, msg, utcnow) ==
    [to |-> sender, kind |-> "ack", timestamp |-> utcnow,
     acknowledged_msg_id |-> msg.msg_id]

\* lines 65-69
LC_initial_state == [active_launches |-> <<>>, historical_patterns |-> <<>>]

LC_running == uagent_name = "launch_coordinator"

\* lines 234-244
LC_token_params ==
    [NoMetrics EXCEPT !.name = [t |-> "str", v |-> "DogeCoin2.0"],
                      !.liquidity_lock_duration = Num(90),
                      !.team_verified = Bool(TRUE),
                      !.vesting_enabled = Bool(TRUE),
                      !.contract_verified = Bool(TRUE)]

\* A text item is the set of the keywords its lowered text contains; lines
\* 207-216 pick the first intent whose keywords it holds
LC_intent(text) ==
    IF "launch" \in text /\ "token" \in text THEN "launch"
    ELSE IF "status" \in text THEN "status"
    ELSE IF "risk" \in text /\ "analysis" \in text THEN "risk_analysis"
    ELSE "help"

\* lines 227-288: the strategy message is sent, then line 282 reads msg.msg_id, and
\* handle_launch_request has no msg (its parameters are ctx, sender, text; the
\* module has no global of that name): NameError, active_launches is not written
handle_launch_request(sender, ok_strategy, ok_risk) ==
    [sent |-> <<[to |-> sender, kind |-> "chat", text |-> "strategy",
                 strategy |-> query_metta_for_launch_strategy(LC_token_params, ok_strategy),
                 risk_analysis |-> analyze_risk_with_metta(LC_token_params, ok_risk)]>>,
     raised |-> TRUE]

\* lines 291-310
LC_handle_status_request(sender, agent_state) ==
    LET launches == agent_state.active_launches
        with(statuses) == Cardinality({i \in 1..Len(launches) :
                                          launches[i].value.status \in statuses})
    IN  [sent |-> <<[to |-> sender, kind |-> "chat", text |-> "status",
                     active_count |-> with({"launching", "monitoring"}),
                     awaiting_approval |-> with({"awaiting_approval"})]>>,
         raised |-> FALSE]

\* lines 313-331
LC_handle_risk_analysis_request(sender) ==
    [sent |-> <<[to |-> sender, kind |-> "chat", text |-> "risk_capabilities"]>>,
     raised |-> FALSE]

\* lines 216-224
LC_help(sender) ==
    [sent |-> <<[to |-> sender, kind |-> "chat", text |-> "help"]>>, raised |-> FALSE]

\* lines 201-224: the items in order; an exception ends the loop
RECURSIVE LC_process_content(_, _, _, _, _)
LC_process_content(content, sender, agent_state, ok_strategy, ok_risk) ==
    IF content = <<>> THEN [sent |-> <<>>, raised |-> FALSE]
    ELSE LET item == Head(content)
             one == IF item.type # "text" THEN [sent |-> <<>>, raised |-> FALSE]
                    ELSE CASE LC_intent(item.text) = "launch" ->
                                  handle_launch_request(sender, ok_strategy, ok_risk)
                           [] LC_intent(item.text) = "status" ->
                                  LC_handle_status_request(sender, agent_state)
                           [] LC_intent(item.text) = "risk_analysis" ->
                                  LC_handle_risk_analysis_request(sender)
                           [] OTHER -> LC_help(sender)
         IN  IF one.raised THEN one
             ELSE LET rest == LC_process_content(Tail(content), sender, agent_state,
                                                 ok_strategy, ok_risk)
                  IN  [sent |-> one.sent \o rest.sent, raised |-> rest.raised]

\* lines 187-224: the acknowledgement first, then the content
LC_handle_chat_message(sender, msg, ok_strategy, ok_risk) ==
    /\ LC_running /\ lc_handled < MaxMessages
    /\ lc_handled' = lc_handled + 1
    /\ LET ack == ChatAcknowledgement(sender, msg, now)
           out == LC_process_content(msg.content, sender, lc_agent_state,
                                     ok_strategy, ok_risk)
       IN  /\ lc_sent' = <<ack>> \o out.sent
           /\ lc_status' = IF out.raised THEN "NameError" ELSE "completed"
    /\ lc_msg' = [sender |-> sender, msg |-> msg]
    /\ UNCHANGED <<call_vars, now, uagent_name, lo_vars, mon_vars, lc_agent_state,
                   lc_metta_kb, ra_vars>>

\* lines 334-356: metta.run of line 353 is not inside a try
handle_solana_execution_result(sender, msg, kb_ok) ==
    /\ LC_running /\ lc_handled < MaxMessages
    /\ lc_handled' = lc_handled + 1
    /\ lc_sent' = <<>>
    /\ IF msg.action = "launch_complete"
       THEN IF kb_ok
            THEN /\ lc_metta_kb' = Append(lc_metta_kb,
                                          [token_mint |-> msg.token_mint,
                                           name |-> msg.name,
                                           graduation_threshold |-> msg.graduation_threshold,
                                           success |-> TRUE,
                                           timestamp |-> now])
                 /\ lc_status' = "completed"
            ELSE /\ lc_metta_kb' = lc_metta_kb
                 /\ lc_status' = "metta.run raised"
       ELSE /\ lc_metta_kb' = lc_metta_kb
            /\ lc_status' = "completed"
    /\ lc_msg' = [sender |-> sender, msg |-> msg]
    /\ UNCHANGED <<call_vars, now, uagent_name, lo_vars, mon_vars, lc_agent_state, ra_vars>>

-----------------------------------------------------------------------------
(* RiskAnalyzerAgent.py: the agent's state, its interval handler and its      *)
(* message handler.  Both are coroutines of one event loop: the interval      *)
(* handler and the message handler are separate tasks, so each can run while  *)
(* the other is suspended at an await; messages are taken from the queue one  *)
(* at a time.                                                                 *)

\* lines 53-64
RA_initial_state ==
    [monitored_tokens |-> <<>>,
     fraud_patterns_detected |-> 0,
     alerts_sent |-> 0]

RA_running == uagent_name = "risk_analyzer"

\* lines 444-455: the mock's answer, the same for every token
fetch_on_chain_data ==
    [NoMetrics EXCEPT !.liquidity_lock_duration = Num(90),
                      !.team_verified = Bool(TRUE),
                      !.vesting_enabled = Bool(TRUE),
                      !.contract_verified = Bool(TRUE),
                      !.top_holder_percentage = Num(125),
                      !.holder_count = Num(1250)]
    @@ [price_history |-> <<100, 105, 110, 108, 112>>]

\* lines 181-231; prices in hundredths.  volume_spike is the literal False of
\* line 199, so rug_pull_detected is False whatever the prices
detect_rug_pull_pattern(price_history, ok, agent_state) ==
    IF Len(price_history) < 5
    THEN [ret |-> [rug_pull_detected |-> FALSE, confidence |-> 0],
          agent_state |-> agent_state]
    ELSE LET recent_prices == SubSeq(price_history, Max(1, Len(price_history) - 9),
                                     Len(price_history))
             first == recent_prices[1]
             last == recent_prices[Len(recent_prices)]
             rapid_sell_off == (first - last) * 100 > 20 * first
             volume_spike == FALSE
             rug_pull_detected == rapid_sell_off /\ volume_spike
         IN  IF first = 0 THEN [ret |-> Raised, agent_state |-> agent_state]
             ELSE IF ~ok
             THEN [ret |-> [rug_pull_detected |-> FALSE, confidence |-> 0],
                   agent_state |-> agent_state]
             ELSE [ret |-> [rug_pull_detected |-> rug_pull_detected,
                            confidence |-> IF rug_pull_detected THEN 85 ELSE 95,
                            indicators |-> [rapid_price_drop |-> rapid_sell_off,
                                            volume_spike_before_drop |-> volume_spike],
                            action |-> IF rug_pull_detected THEN "ALERT_USERS"
                                       ELSE "CONTINUE_MONITORING"],
                   agent_state |->
                       IF rug_pull_detected
                       THEN [agent_state EXCEPT !.fraud_patterns_detected = @ + 1]
                       ELSE agent_state]

\* the tick ends
RA_MonitorEnds ==
    /\ ra_mon_pc' = "idle"
    /\ ra_mon_todo' = <<>>

\* line 381: the interval fires and the loop takes its snapshot
RA_MonitorStart ==
    /\ RA_running /\ ra_mon_pc = "idle" /\ ra_mon_ticks < MaxTicks
    /\ ra_mon_ticks' = ra_mon_ticks + 1
    /\ ra_mon_registered' = DictKeys(ra_agent_state.monitored_tokens)
    /\ ra_mon_log' = <<>>
    /\ IF ra_agent_state.monitored_tokens = <<>>
       THEN RA_MonitorEnds
       ELSE /\ ra_mon_pc' = "loop"
            /\ ra_mon_todo' = DictItems(ra_agent_state.monitored_tokens)
    /\ UNCHANGED <<call_vars, now, uagent_name, lo_vars, mon_vars, lc_vars, ra_agent_state,
                   ra_msg_vars, ra_mon_token, ra_mon_data, ra_mon_analysis>>

\* lines 381-383: the next token of the snapshot; fetch_on_chain_data is awaited
RA_MonitorFetch ==
    /\ RA_running /\ ra_mon_pc = "loop"
    /\ ra_mon_token' = Head(ra_mon_todo).key
    /\ ra_mon_data' = fetch_on_chain_data
    /\ ra_mon_pc' = "fetched"
    /\ UNCHANGED <<call_vars, now, uagent_name, lo_vars, mon_vars, lc_vars, ra_agent_state,
                   ra_msg_vars, ra_mon_todo, ra_mon_analysis, ra_mon_ticks,
                   ra_mon_registered, ra_mon_log>>

\* a variant of RA_MonitorAnalyze that counts an alert for every level but LOW
RA_MonitorAnalyze_AlertsBelowLow ==
    /\ RA_running /\ ra_mon_pc = "fetched"
    /\ \E ok \in BOOLEAN :
         LET risk_analysis == analyze_token_risk_with_metta(ra_mon_data, ok)
         IN  /\ ra_mon_analysis' = risk_analysis
             /\ ra_agent_state' =
                    IF risk_analysis.risk_level # "LOW"
                    THEN [ra_agent_state EXCEPT !.alerts_sent = @ + 1]
                    ELSE ra_agent_state
    /\ ra_mon_log' = Append(ra_mon_log, ra_mon_token)
    /\ ra_mon_pc' = "analyzed"
    /\ UNCHANGED <<call_vars, now, uagent_name, lo_vars, mon_vars, lc_vars, ra_msg_vars,
                   ra_mon_todo, ra_mon_token, ra_mon_data, ra_mon_ticks, ra_mon_registered>>

\* lines 386-394: the analysis is awaited; a HIGH level counts an alert and
\* send_risk_alert (a print) is awaited
RA_MonitorAnalyze ==
    /\ RA_running /\ ra_mon_pc = "fetched"
    /\ \E ok \in BOOLEAN :
         LET risk_analysis == analyze_token_risk_with_metta(ra_mon_data, ok)
         IN  /\ ra_mon_analysis' = risk_analysis
             /\ ra_agent_state' =
                    IF risk_analysis.risk_level = "HIGH"
                    THEN [ra_agent_state EXCEPT !.alerts_sent = @ + 1]
                    ELSE ra_agent_state
    /\ ra_mon_log' = Append(ra_mon_log, ra_mon_token)
    /\ ra_mon_pc' = "analyzed"
    /\ UNCHANGED <<call_vars, now, uagent_name, lo_vars, mon_vars, lc_vars, ra_msg_vars,
                   ra_mon_todo, ra_mon_token, ra_mon_data, ra_mon_ticks, ra_mon_registered>>

\* lines 397-405: the rug pull detection, then the next token or the end
RA_MonitorDetect ==
    /\ RA_running /\ ra_mon_pc = "analyzed"
    /\ \E ok \in BOOLEAN :
         LET detection == IF "price_history" \in DOMAIN ra_mon_data
                          THEN detect_rug_pull_pattern(ra_mon_data.price_history, ok,
                                                       ra_agent_state)
                          ELSE [ret |-> NoResult, agent_state |-> ra_agent_state]
         IN  ra_agent_state' = detection.agent_state
    /\ IF Len(ra_mon_todo) > 1
       THEN /\ ra_mon_pc' = "loop"
            /\ ra_mon_todo' = Tail(ra_mon_todo)
       ELSE RA_MonitorEnds
    /\ UNCHANGED <<call_vars, now, uagent_name, lo_vars, mon_vars, lc_vars, ra_msg_vars,
                   ra_mon_token, ra_mon_data, ra_mon_analysis, ra_mon_ticks,
                   ra_mon_registered, ra_mon_log>>

\* lines 415-427
RA_handle_monitor_token(sender, token_address) ==
    /\ RA_running /\ ra_msg_pc = "idle" /\ ra_handled < MaxMessages
    /\ ra_handled' = ra_handled + 1
    /\ ra_msg' = [sender |-> sender,
                  msg |-> [action |-> "monitor_token", token_address |-> token_address]]
    /\ ra_agent_state' =
           [ra_agent_state EXCEPT !.monitored_tokens =
               DictSet(@, token_address, [added_at |-> now, launch_data |-> <<>>])]
    /\ ra_sent' = <<[to |-> sender, action |-> "monitoring_started",
                     token_address |-> token_address]>>
    /\ UNCHANGED <<call_vars, now, uagent_name, lo_vars, mon_vars, lc_vars, ra_msg_pc,
                   ra_msg_data, ra_msg_analysis, ra_mon_vars>>

\* a variant of RA_ReportStart without the test of line 432: a report is
\* prepared for any token
RA_ReportStart_AnyToken(sender, token_address) ==
    /\ RA_running /\ ra_msg_pc = "idle" /\ ra_handled < MaxMessages
    /\ ra_handled' = ra_handled + 1
    /\ ra_msg' = [sender |-> sender,
                  msg |-> [action |-> "get_risk_report", token_address |-> token_address]]
    /\ ra_sent' = <<>>
    /\ ra_msg_pc' = "fetched"
    /\ ra_msg_data' = fetch_on_chain_data
    /\ UNCHANGED <<call_vars, now, uagent_name, lo_vars, mon_vars, lc_vars, ra_agent_state,
                   ra_msg_analysis, ra_mon_vars>>

\* lines 429-433: get_risk_report for a monitored token awaits fetch_on_chain_data;
\* for any other token the handler returns without sending
RA_ReportStart(sender, token_address) ==
    /\ RA_running /\ ra_msg_pc = "idle" /\ ra_handled < MaxMessages
    /\ ra_handled' = ra_handled + 1
    /\ ra_msg' = [sender |-> sender,
                  msg |-> [action |-> "get_risk_report", token_address |-> token_address]]
    /\ ra_sent' = <<>>
    /\ IF DictHas(ra_agent_state.monitored_tokens, token_address)
       THEN /\ ra_msg_pc' = "fetched"
            /\ ra_msg_data' = fetch_on_chain_data
       ELSE /\ ra_msg_pc' = "idle"
            /\ ra_msg_data' = ra_msg_data
    /\ UNCHANGED <<call_vars, now, uagent_name, lo_vars, mon_vars, lc_vars, ra_agent_state,
                   ra_msg_analysis, ra_mon_vars>>

\* line 434: the analysis is awaited
RA_ReportAnalyze ==
    /\ RA_running /\ ra_msg_pc = "fetched"
    /\ \E ok \in BOOLEAN :
         ra_msg_analysis' = analyze_token_risk_with_metta(ra_msg_data, ok)
    /\ ra_msg_pc' = "analyzed"
    /\ UNCHANGED <<call_vars, now, uagent_name, lo_vars, mon_vars, lc_vars, ra_agent_state,
                   ra_sent, ra_handled, ra_msg, ra_msg_data, ra_mon_vars>>

\* lines 436-440: the report is sent
RA_ReportSend ==
    /\ RA_running /\ ra_msg_pc = "analyzed"
    /\ ra_sent' = <<[to |-> ra_msg.sender, action |-> "risk_report",
                     token_address |-> ra_msg.msg.token_address,
                     analysis |-> ra_msg_analysis]>>
    /\ ra_msg_pc' = "idle"
    /\ UNCHANGED <<call_vars, now, uagent_name, lo_vars, mon_vars, lc_vars, ra_agent_state,
                   ra_handled, ra_msg, ra_msg_data, ra_msg_analysis, ra_mon_vars>>

\* RiskAnalyzerAgent.py lines 248-271: the intent of a text item
RA_intent(text) ==
    IF "analyze" \in text /\ ("risk" \in text \/ "token" \in text) THEN "risk_analysis"
    ELSE IF "status" \in text THEN "status"
    ELSE IF "alert" \in text THEN "alert"
    ELSE "help"

\* lines 281-290: the mock token data of handle_risk_analysis_request
RA_token_data ==
    [NoMetrics EXCEPT !.liquidity_lock_duration = Num(90),
                      !.team_verified = Bool(TRUE),
                      !.vesting_enabled = Bool(TRUE),
                      !.contract_verified = Bool(TRUE),
                      !.top_holder_percentage = Num(125),
                      !.graduation_time_hours = Num(72),
                      !.holder_count = Num(1250)]

\* lines 274-327
RA_handle_risk_analysis_request(sender, ok) ==
    [to |-> sender, kind |-> "chat", text |-> "risk_analysis",
     risk_analysis |-> analyze_token_risk_with_metta(RA_token_data, ok)]

\* lines 330-353
RA_handle_status_request(sender, agent_state) ==
    [to |-> sender, kind |-> "chat", text |-> "status",
     monitored_tokens |-> Len(agent_state.monitored_tokens),
     fraud_patterns_detected |-> agent_state.fraud_patterns_detected,
     alerts_sent |-> agent_state.alerts_sent]

\* lines 356-371
RA_handle_alert_query(sender) == [to |-> sender, kind |-> "chat", text |-> "alerts"]

\* lines 262-271
RA_help(sender) == [to |-> sender, kind |-> "chat", text |-> "help"]

\* lines 248-271: the items in order, one response for each text item
RECURSIVE RA_process_content(_, _, _, _)
RA_process_content(content, sender, agent_state, ok) ==
    IF content = <<>> THEN <<>>
    ELSE LET item == Head(content)
             one == IF item.type # "text" THEN <<>>
                    ELSE CASE RA_intent(item.text) = "risk_analysis" ->
                                  <<RA_handle_risk_analysis_request(sender, ok)>>
                           [] RA_intent(item.text) = "status" ->
                                  <<RA_handle_status_request(sender, agent_state)>>
                           [] RA_intent(item.text) = "alert" ->
                                  <<RA_handle_alert_query(sender)>>
                           [] OTHER -> <<RA_help(sender)>>
         IN  one \o RA_process_content(Tail(content), sender, agent_state, ok)

\* lines 234-271: the acknowledgement, then the responses
RA_handle_chat_message(sender, msg, ok) ==
    /\ RA_running /\ ra_msg_pc = "idle" /\ ra_handled < MaxMessages
    /\ ra_handled' = ra_handled + 1
    /\ ra_msg' = [sender |-> sender, msg |-> msg]
    /\ ra_sent' = <<ChatAcknowledgement(sender, msg, now)>>
                  \o RA_process_content(msg.content, sender, ra_agent_state, ok)
    /\ UNCHANGED <<call_vars, now, uagent_name, lo_vars, mon_vars, lc_vars, ra_agent_state,
                   ra_msg_pc, ra_msg_data, ra_msg_analysis, ra_mon_vars>>

\* lines 413-429: an action that is neither monitor_token nor get_risk_report
\* matches no branch; the handler returns
RA_handle_other(sender, action, token_address) ==
    /\ RA_running /\ ra_msg_pc = "idle" /\ ra_handled < MaxMessages
    /\ ra_handled' = ra_handled + 1
    /\ ra_msg' = [sender |-> sender,
                  msg |-> [action |-> action, token_address |-> token_address]]
    /\ ra_sent' = <<>>
    /\ UNCHANGED <<call_vars, now, uagent_name, lo_vars, mon_vars, lc_vars, ra_agent_state,
                   ra_msg_pc, ra_msg_data, ra_msg_analysis, ra_mon_vars>>

\* datetime.utcnow() moves on
AdvanceTime ==
    /\ uagent_name # "none" /\ now < CallTime + MaxElapsed
    /\ now' = now + 1
    /\ UNCHANGED <<call_vars, uagent_name, lo_vars, mon_vars, lc_vars, ra_vars>>

-----------------------------------------------------------------------------
(* One call of a decision function on arguments drawn from bounded sets *)


BoolVals == {Absent, None, Bool(TRUE), Bool(FALSE)}
LockVals == {Absent, None, Num(10), Num(30)}
HolderVals == {Absent, None, Num(250), Num(300), Num(350)}
GraduationVals == {Absent, None, Num(12), Num(24)}
HolderCountVals == {Absent, Num(1250)}
NameVals == {Absent, [t |-> "str", v |-> "DogeCoin2.0"]}

\* hours between the position_arg's last rebalance and the call
ElapsedVals == {-24, 0, 23, 24, 25, 48}

NoPosition == DAMMPosition("", "", "", "")

\* the dicts a function is called on: the keys it does not read are absent
RA_inputs ==
    {[NoMetrics EXCEPT !.liquidity_lock_duration = l, !.team_verified = tv,
                       !.vesting_enabled = ve, !.contract_verified = cv,
                       !.top_holder_percentage = h, !.graduation_time_hours = g] :
        l \in LockVals, tv \in BoolVals, ve \in BoolVals, cv \in BoolVals,
        h \in HolderVals, g \in GraduationVals}

LC_inputs ==
    {[NoMetrics EXCEPT !.liquidity_lock_duration = l, !.team_verified = tv,
                       !.vesting_enabled = ve, !.contract_verified = cv] :
        l \in LockVals, tv \in BoolVals, ve \in BoolVals, cv \in BoolVals}

LC_strategy_inputs == {[NoMetrics EXCEPT !.name = n] : n \in NameVals}

RSM_inputs ==
    {[NoMetrics EXCEPT !.liquidity_locked = ll, !.liquidity_lock_duration = l,
                       !.team_verified = tv, !.vesting_enabled = ve,
                       !.contract_verified = cv, !.top_holder_percentage = h,
                       !.graduation_time_hours = g, !.holder_count = hc] :
        ll \in BoolVals, l \in LockVals, tv \in BoolVals, ve \in BoolVals,
        cv \in BoolVals, h \in HolderVals, g \in GraduationVals, hc \in HolderCountVals}

LO_inputs ==
    {[DAMMPosition("p1", "pool1", "A", "B") EXCEPT
          !.last_rebalance = lr, !.liquidity_amount = la, !.current_range = cr] :
        lr \in {None} \cup {Num(CallTime - e) : e \in ElapsedVals},
        la \in {0, 1000},
        cr \in {[lower |-> 0, upper |-> 0], [lower |-> 95, upper |-> 105]}}

LO_idle ==
    /\ lo_agent_state = LO_initial_state
    /\ lo_sol_sent = <<>>
    /\ lo_metta_kb = <<>>
    /\ lo_sent = <<>>
    /\ lo_handled = 0
    /\ mon_pc = "idle"
    /\ mon_todo = <<>>
    /\ mon_position = NoPosition
    /\ mon_oracle_ok = TRUE
    /\ mon_analysis = NoResult
    /\ mon_status = "completed"
    /\ mon_ticks = 0
    /\ mon_registered = <<>>
    /\ mon_log = <<>>
    /\ lo_msg = NoMessage
    /\ lo_removed = [position_id \in PositionIds |-> None]

No_call ==
    /\ fn = "none" /\ pc = "done" /\ result = NoResult /\ result_again = NoResult
    /\ returned = <<>>
    /\ metrics = NoMetrics /\ position_arg = NoPosition /\ oracle_ok = TRUE

LC_idle ==
    /\ lc_agent_state = LC_initial_state
    /\ lc_metta_kb = <<>>
    /\ lc_sent = <<>>
    /\ lc_status = "completed"
    /\ lc_handled = 0
    /\ lc_msg = NoMessage

RA_idle ==
    /\ ra_agent_state = RA_initial_state
    /\ ra_sent = <<>>
    /\ ra_handled = 0
    /\ ra_msg = NoMessage
    /\ ra_msg_pc = "idle"
    /\ ra_msg_data = NoMetrics
    /\ ra_msg_analysis = NoResult
    /\ ra_mon_pc = "idle"
    /\ ra_mon_todo = <<>>
    /\ ra_mon_token = ""
    /\ ra_mon_data = NoMetrics
    /\ ra_mon_analysis = NoResult
    /\ ra_mon_ticks = 0
    /\ ra_mon_registered = <<>>
    /\ ra_mon_log = <<>>

(* agent_runner.py *)
\* the map from agent names to their Python files
agent_files ==
    << [key |-> "launch_coordinator", value |-> "LaunchCoordinatorAgent.py"],
       [key |-> "liquidity_optimizer", value |-> "LiquidityOptimizerAgent.py"],
       [key |-> "risk_analyzer", value |-> "RiskAnalyzerAgent.py"] >>

\* os.getenv(key, default)
os_getenv(environ, key, default) ==
    IF DictHas(environ, key) THEN DictGet(environ, key) ELSE default

\* main where the check of the name is left out
main_AnyName(environ, files) ==
    LET agent_name == os_getenv(environ, "UAGENT_NAME", "launch_coordinator")
    IN  [exit_status |-> 0, sys_modules |-> {agent_name}]

\* main(): the exit status of the process (0 when main returns) and the modules
\* it registered in sys.modules and executed
main(environ, files) ==
    LET agent_name == os_getenv(environ, "UAGENT_NAME", "launch_coordinator")
    IN  IF ~DictHas(agent_files, agent_name)
        THEN [exit_status |-> 1, sys_modules |-> {}]
        ELSE IF DictGet(agent_files, agent_name) \notin files
        THEN [exit_status |-> 1, sys_modules |-> {}]
        ELSE [exit_status |-> 0, sys_modules |-> {agent_name}]

\* the environments of the process: UAGENT_NAME unset, or set to a name
Environs ==
    {<<>>} \cup
    {<<[key |-> "UAGENT_NAME", value |-> name]>> :
        name \in {"launch_coordinator", "liquidity_optimizer", "risk_analyzer",
                  "", "LaunchCoordinator", "risk_analyser"}}

\* the agent files that may be present beside agent_runner.py
AgentFiles == {agent_files[i].value : i \in 1..Len(agent_files)}

\* the process starts: python agent_runner.py
InitRunner ==
    /\ uagent_name = "none"
    /\ fn = "main" /\ pc = "start"
    /\ result = NoResult /\ result_again = NoResult
    /\ returned = <<>>
    /\ metrics \in [environ : Environs, files : SUBSET AgentFiles]
    /\ position_arg = NoPosition /\ oracle_ok = TRUE
    /\ LO_idle
    /\ LC_idle
    /\ RA_idle

Call_main ==
    /\ pc = "start" /\ fn = "main"
    /\ result' = main(metrics.environ, metrics.files)
    /\ uagent_name' = IF result'.sys_modules = {} THEN "none"
                      ELSE CHOOSE name \in result'.sys_modules : TRUE
    /\ pc' = "done"
    /\ UNCHANGED <<fn, metrics, position_arg, oracle_ok, returned, result_again, now, lo_vars, mon_vars, lc_vars, ra_vars>>

\* the price histories detect_rug_pull_pattern is called on, prices in
\* hundredths: every history of up to MaxPrices prices, and histories of 11
\* prices, one more than the slice price_history[-10:] keeps
PriceHistories ==
    LET Prices == {0, 70, 100}
        short == UNION {[1..n -> Prices] : n \in 0..MaxPrices}
    IN  short \cup {<<first>> \o h \o h : first \in Prices, h \in [1..5 -> Prices]}

\* a caller of detect_rug_pull_pattern
InitRugPull ==
    /\ uagent_name = "none"
    /\ fn = "detect_rug_pull_pattern" /\ pc = "start"
    /\ result = NoResult /\ result_again = NoResult /\ returned = <<>>
    /\ metrics \in [price_history : PriceHistories]
    /\ oracle_ok \in BOOLEAN
    /\ position_arg = NoPosition
    /\ LO_idle
    /\ LC_idle
    /\ RA_idle

\* RiskAnalyzerAgent.py lines 181-231, called directly
Call_detect_rug_pull_pattern ==
    /\ pc = "start" /\ fn = "detect_rug_pull_pattern"
    /\ LET done == detect_rug_pull_pattern(metrics.price_history, oracle_ok, ra_agent_state)
       IN  /\ result' = done.ret
           /\ ra_agent_state' = done.agent_state
    /\ pc' = "done"
    /\ UNCHANGED <<fn, metrics, position_arg, oracle_ok, returned, result_again, now,
                   uagent_name, lo_vars, mon_vars, lc_vars, ra_msg_vars, ra_mon_vars>>

\* the positions harvest_fees_if_profitable is called on: unclaimed fees, in
\* thousandths of a dollar, on both sides of Decimal("1.0") and of 2 * gas_cost
LO_harvest_inputs ==
    {[DAMMPosition(position_id, "pool1", "A", "B") EXCEPT !.unclaimed_fees = fees] :
        position_id \in PositionIds, fees \in {0, 1, 2, 999, 1000, 1001, 2500}}

\* a caller of harvest_fees_if_profitable, before its first call
InitHarvest ==
    /\ uagent_name = "none"
    /\ fn = "harvest_fees_if_profitable" /\ pc = "start"
    /\ result = NoResult /\ result_again = NoResult /\ returned = <<>>
    /\ metrics = NoMetrics /\ oracle_ok = TRUE
    /\ position_arg \in LO_harvest_inputs
    /\ LO_idle
    /\ LC_idle
    /\ RA_idle

\* a direct call of a decision function
InitCall ==
    /\ uagent_name = "none"
    /\ pc = "start"
    /\ result = NoResult
    /\ result_again = NoResult
    /\ returned = <<>>
    /\ oracle_ok \in BOOLEAN
    /\ \/ fn = "analyze_token_risk_with_metta" /\ metrics \in RA_inputs /\ position_arg = NoPosition
       \/ fn = "analyze_risk_with_metta" /\ metrics \in LC_inputs /\ position_arg = NoPosition
       \/ fn = "query_metta_for_launch_strategy" /\ metrics \in LC_strategy_inputs
            /\ position_arg = NoPosition
       \/ fn = "predict" /\ metrics \in RSM_inputs /\ position_arg = NoPosition
            /\ oracle_ok = TRUE
       \/ fn = "analyze_rebalancing_opportunity_with_metta" /\ metrics = NoMetrics
            /\ position_arg \in LO_inputs
    /\ LO_idle
    /\ LC_idle
    /\ RA_idle

\* agent_runner.py has started the agent UAGENT_NAME names
InitAgent(name) ==
    /\ uagent_name = name
    /\ No_call
    /\ LO_idle
    /\ LC_idle
    /\ RA_idle

Init ==
    /\ now = CallTime
    /\ \/ InitCall
       \/ InitAgent("liquidity_optimizer")
       \/ InitAgent("launch_coordinator")
       \/ InitAgent("risk_analyzer")
       \/ InitRunner
       \/ InitHarvest
       \/ InitRugPull

Call_analyze_token_risk_with_metta ==
    /\ pc = "start" /\ fn = "analyze_token_risk_with_metta"
    /\ result' = analyze_token_risk_with_metta(metrics, oracle_ok)
    /\ pc' = "done"
    /\ UNCHANGED <<fn, metrics, position_arg, oracle_ok, returned, result_again, now, uagent_name, lo_vars, mon_vars, lc_vars, ra_vars>>

Call_analyze_risk_with_metta ==
    /\ pc = "start" /\ fn = "analyze_risk_with_metta"
    /\ result' = analyze_risk_with_metta(metrics, oracle_ok)
    /\ pc' = "done"
    /\ UNCHANGED <<fn, metrics, position_arg, oracle_ok, returned, result_again, now, uagent_name, lo_vars, mon_vars, lc_vars, ra_vars>>

Call_query_metta_for_launch_strategy ==
    /\ pc = "start" /\ fn = "query_metta_for_launch_strategy"
    /\ result' = query_metta_for_launch_strategy(metrics, oracle_ok)
    /\ pc' = "done"
    /\ UNCHANGED <<fn, metrics, position_arg, oracle_ok, returned, result_again, now, uagent_name, lo_vars, mon_vars, lc_vars, ra_vars>>

Call_predict ==
    /\ pc = "start" /\ fn = "predict"
    /\ result' = RSM_predict(metrics, now)
    /\ pc' = "done"
    /\ UNCHANGED <<fn, metrics, position_arg, oracle_ok, returned, result_again, now, uagent_name, lo_vars, mon_vars, lc_vars, ra_vars>>

Call_analyze_rebalancing_opportunity_with_metta ==
    /\ pc = "start" /\ fn = "analyze_rebalancing_opportunity_with_metta"
    /\ result' = analyze_rebalancing_opportunity_with_metta(position_arg, oracle_ok, now)
    /\ pc' = "done"
    /\ UNCHANGED <<fn, metrics, position_arg, oracle_ok, returned, result_again, now, uagent_name, lo_vars, mon_vars, lc_vars, ra_vars>>

\* datetime.utcnow() moves on between two calls
CallLater ==
    /\ uagent_name = "none" /\ pc = "done" /\ now < CallTime + MaxElapsed
    /\ now' = now + 1
    /\ UNCHANGED <<call_vars, uagent_name, lo_vars, mon_vars, lc_vars, ra_vars>>

\* the same function called a second time on the same arguments, the oracle
\* answering or failing as it did the first time
Again_analyze_token_risk_with_metta ==
    /\ pc = "done" /\ fn = "analyze_token_risk_with_metta"
    /\ result_again' = analyze_token_risk_with_metta(metrics, oracle_ok)
    /\ pc' = "again"
    /\ UNCHANGED <<fn, metrics, position_arg, oracle_ok, returned, result, now, uagent_name, lo_vars,
                   mon_vars, lc_vars, ra_vars>>

Again_analyze_risk_with_metta ==
    /\ pc = "done" /\ fn = "analyze_risk_with_metta"
    /\ result_again' = analyze_risk_with_metta(metrics, oracle_ok)
    /\ pc' = "again"
    /\ UNCHANGED <<fn, metrics, position_arg, oracle_ok, returned, result, now, uagent_name, lo_vars,
                   mon_vars, lc_vars, ra_vars>>

Again_predict ==
    /\ pc = "done" /\ fn = "predict"
    /\ result_again' = RSM_predict(metrics, now)
    /\ pc' = "again"
    /\ UNCHANGED <<fn, metrics, position_arg, oracle_ok, returned, result, now, uagent_name, lo_vars,
                   mon_vars, lc_vars, ra_vars>>

Again_analyze_rebalancing_opportunity_with_metta ==
    /\ pc = "done" /\ fn = "analyze_rebalancing_opportunity_with_metta"
    /\ result_again' = analyze_rebalancing_opportunity_with_metta(position_arg, oracle_ok, now)
    /\ pc' = "again"
    /\ UNCHANGED <<fn, metrics, position_arg, oracle_ok, returned, result, now, uagent_name, lo_vars,
                   mon_vars, lc_vars, ra_vars>>

\* the decision functions, each called once on the inputs Init drew
NextCalls ==
    \/ Call_analyze_token_risk_with_metta
    \/ Call_analyze_risk_with_metta
    \/ Call_query_metta_for_launch_strategy
    \/ Call_predict
    \/ Call_analyze_rebalancing_opportunity_with_metta

\* LiquidityOptimizerAgent.py: the interval handler and the message handlers
NextLiquidityOptimizer ==
    \/ MonitorStart
    \/ MonitorFetch
    \/ MonitorAnalyze
    \/ MonitorAct
    \/ \E sender \in Senders, position_id \in PositionIds :
          LO_handle_add_position(sender, position_id, "pool1", "A", "B")
    \/ \E sender \in Senders : LO_handle_get_performance(sender)
    \/ \E sender \in Senders, position_id \in PositionIds :
          LO_handle_remove_position(sender, position_id)

\* LaunchCoordinatorAgent.py: the message handlers
NextLaunchCoordinator ==
    \/ \E sender \in Senders, msg \in ChatMessages, ok_strategy \in BOOLEAN, ok_risk \in BOOLEAN :
          LC_handle_chat_message(sender, msg, ok_strategy, ok_risk)
    \/ \E sender \in Senders, msg \in SolanaExecutionResults, kb_ok \in BOOLEAN :
          handle_solana_execution_result(sender, msg, kb_ok)

\* RiskAnalyzerAgent.py: the interval handler and the message handler
NextRiskAnalyzer ==
    \/ RA_MonitorStart
    \/ RA_MonitorFetch
    \/ RA_MonitorAnalyze
    \/ RA_MonitorDetect
    \/ \E sender \in Senders, token_address \in TokenAddresses :
          RA_handle_monitor_token(sender, token_address)
    \/ \E sender \in Senders, token_address \in TokenAddresses :
          RA_ReportStart(sender, token_address)
    \/ RA_ReportAnalyze
    \/ RA_ReportSend
    \/ \E sender \in Senders, action \in OtherActions, token_address \in TokenAddresses :
          RA_handle_other(sender, action, token_address)

\* LiquidityOptimizerAgent.py lines 247-250, called directly: the position
\* analysed is rebalanced to the optimal range of an analysis that says so;
\* execute_rebalancing writes the range and last_rebalance of the position
\* object, agent_state, and the knowledge graph
Call_execute_rebalancing ==
    /\ uagent_name = "none" /\ fn = "analyze_rebalancing_opportunity_with_metta"
    /\ pc \in {"done", "rebalanced"}
    /\ LO_monitor_rebalances(result)
    /\ Len(returned) < MaxRebalances
    /\ \E kb_ok \in BOOLEAN :
         LET done == execute_rebalancing(position_arg, result.optimal_range, kb_ok,
                                         lo_agent_state, lo_sol_sent, lo_metta_kb, now)
         IN  /\ position_arg' = done.position
             /\ lo_agent_state' = done.agent_state
             /\ lo_sol_sent' = done.sol_sent
             /\ lo_metta_kb' = done.metta_kb
             /\ returned' = Append(returned, done.ret)
    /\ pc' = "rebalanced"
    /\ UNCHANGED <<fn, metrics, oracle_ok, result, result_again, now, uagent_name,
                   lo_sent, lo_handled, lo_msg, lo_removed, mon_vars, lc_vars, ra_vars>>

\* the caller holds a position with its metrics and is about to call
\* harvest_fees_if_profitable on it
Hold_position ==
    /\ uagent_name = "none" /\ fn = "harvest_fees_if_profitable" /\ pc = "done"
    /\ Len(returned) < MaxHarvests
    /\ position_arg' \in LO_harvest_inputs
    /\ pc' = "start"
    /\ UNCHANGED <<fn, metrics, oracle_ok, returned, result, result_again, now, uagent_name,
                   lo_vars, mon_vars, lc_vars, ra_vars>>

\* LiquidityOptimizerAgent.py lines 121-144, called directly
Call_harvest_fees_if_profitable ==
    /\ uagent_name = "none" /\ fn = "harvest_fees_if_profitable" /\ pc = "start"
    /\ LET done == harvest_fees_if_profitable(position_arg, lo_agent_state, lo_sol_sent)
       IN  /\ position_arg' = done.position
           /\ lo_agent_state' = done.agent_state
           /\ lo_sol_sent' = done.sol_sent
           /\ returned' = Append(returned, done.ret)
    /\ pc' = "done"
    /\ UNCHANGED <<fn, metrics, oracle_ok, result, result_again, now, uagent_name,
                   lo_metta_kb, lo_sent, lo_handled, lo_msg, lo_removed, mon_vars,
                   lc_vars, ra_vars>>

\* a decision function called twice, time passing or not in between
NextRepeat ==
    \/ CallLater
    \/ Again_analyze_token_risk_with_metta
    \/ Again_analyze_risk_with_metta
    \/ Again_predict
    \/ Again_analyze_rebalancing_opportunity_with_metta

\* RiskAnalyzerAgent.py: the chat protocol's handler
NextRiskAnalyzerChat ==
    \E sender \in Senders, msg \in RA_ChatMessages, ok \in BOOLEAN :
        RA_handle_chat_message(sender, msg, ok)

\* LaunchCoordinatorAgent.py: the chat protocol's handler
NextLaunchCoordinatorChat ==
    \E sender \in Senders, msg \in ChatMessages, ok_strategy \in BOOLEAN, ok_risk \in BOOLEAN :
        LC_handle_chat_message(sender, msg, ok_strategy, ok_risk)

Next ==
    \/ NextRiskAnalyzerChat
    \/ NextCalls
    \/ NextRepeat
    \/ NextLiquidityOptimizer
    \/ NextLaunchCoordinator
    \/ NextRiskAnalyzer
    \/ AdvanceTime
    \/ Call_main
    \/ Call_execute_rebalancing
    \/ Hold_position
    \/ Call_harvest_fees_if_profitable
    \/ Call_detect_rug_pull_pattern

Spec == Init /\ [][Next]_vars

\* The decision functions alone
InitCalls == now = CallTime /\ InitCall

SpecCalls == InitCalls /\ [][NextCalls]_vars

\* the decision functions called twice on the same arguments
RunRepeat == NextCalls \/ NextRepeat

SpecRepeat == InitCalls /\ [][RunRepeat]_vars

\* LiquidityOptimizerAgent.py alone: its decision function called directly, or
\* the agent running
InitLiquidityOptimizer ==
    /\ now = CallTime
    /\ \/ InitCall /\ fn = "analyze_rebalancing_opportunity_with_metta"
       \/ InitAgent("liquidity_optimizer")

RunLiquidityOptimizer ==
    \/ Call_analyze_rebalancing_opportunity_with_metta
    \/ Call_execute_rebalancing
    \/ NextLiquidityOptimizer
    \/ AdvanceTime

SpecLiquidityOptimizer == InitLiquidityOptimizer /\ [][RunLiquidityOptimizer]_vars

\* LaunchCoordinatorAgent.py alone: the agent running
InitLaunchCoordinator == now = CallTime /\ InitAgent("launch_coordinator")

RunLaunchCoordinator == NextLaunchCoordinator \/ AdvanceTime

SpecLaunchCoordinator == InitLaunchCoordinator /\ [][RunLaunchCoordinator]_vars

\* RiskAnalyzerAgent.py alone: the agent running
InitRiskAnalyzer == now = CallTime /\ InitAgent("risk_analyzer")

RunRiskAnalyzer == NextRiskAnalyzer \/ AdvanceTime

SpecRiskAnalyzer == InitRiskAnalyzer /\ [][RunRiskAnalyzer]_vars

\* the two agents that have an interval handler, one of them running
InitMonitors ==
    /\ now = CallTime
    /\ (InitAgent("liquidity_optimizer") \/ InitAgent("risk_analyzer"))

RunMonitors == NextLiquidityOptimizer \/ NextRiskAnalyzer \/ AdvanceTime

SpecMonitors == InitMonitors /\ [][RunMonitors]_vars

\* the two agents that include the chat protocol, one of them running
InitChat ==
    /\ now = CallTime
    /\ (InitAgent("launch_coordinator") \/ InitAgent("risk_analyzer"))

RunChat == NextLaunchCoordinatorChat \/ NextRiskAnalyzerChat \/ AdvanceTime

SpecChat == InitChat /\ [][RunChat]_vars

\* agent_runner.py alone: the process from its start to the agent's module
InitAgentRunner == now = CallTime /\ InitRunner

RunAgentRunner == Call_main

SpecAgentRunner == InitAgentRunner /\ [][RunAgentRunner]_vars

\* RiskAnalyzerAgent.py with all its events: the interval handler, the dict
\* messages and the chat messages
RunRiskAnalyzerEvents == NextRiskAnalyzer \/ NextRiskAnalyzerChat \/ AdvanceTime

SpecRiskAnalyzerEvents == InitRiskAnalyzer /\ [][RunRiskAnalyzerEvents]_vars

\* detect_rug_pull_pattern alone
InitRugPulls == now = CallTime /\ InitRugPull

RunRugPulls == Call_detect_rug_pull_pattern

SpecRugPulls == InitRugPulls /\ [][RunRugPulls]_vars

\* harvest_fees_if_profitable alone, called on one position after another
InitHarvests == now = CallTime /\ InitHarvest

RunHarvests == Hold_position \/ Call_harvest_fees_if_profitable

SpecHarvests == InitHarvests /\ [][RunHarvests]_vars

-----------------------------------------------------------------------------
(* Claims *)

RiskScorers == {"analyze_token_risk_with_metta", "analyze_risk_with_metta", "predict"}

Returned == pc = "done" /\ result # Raised

\* C1: whatever the metrics and whether the oracle call succeeds or fails, the
\* risk_score a risk scorer returns lies in 0..10 (0..100 tenths).
C1_RiskScoreInRange ==
    (Returned /\ fn \in RiskScorers) =>
        (0 <= result.risk_score /\ result.risk_score <= 100)

\* all six checks of the RiskAnalyzer fire (7.5 - 9.0 < 0) and the returned score is 0
C1_Witness ==
    /\ Returned /\ fn = "analyze_token_risk_with_metta" /\ oracle_ok
    /\ Len(result.red_flags) = 6
    /\ result.risk_score = 0

\* the bands of a threshold for HIGH, on a returned score
Bands(high_below, risk_score) ==
    IF risk_score < high_below THEN "HIGH" ELSE IF risk_score < 70 THEN "MEDIUM" ELSE "LOW"

Unverified == {Absent, None, Bool(FALSE)}

\* the scenario of C3: lock of 10 days, team not verified, no vesting, contract not
\* verified, top holder at 35%, no graduation time, oracle call succeeds
C3_Scenario ==
    /\ fn = "analyze_token_risk_with_metta" /\ oracle_ok
    /\ metrics.liquidity_lock_duration = Num(10)
    /\ metrics.team_verified \in Unverified
    /\ metrics.vesting_enabled \in Unverified
    /\ metrics.contract_verified \in Unverified
    /\ metrics.top_holder_percentage = Num(350)
    /\ metrics.graduation_time_hours = Absent

\* C3: in that scenario the RiskAnalyzer applies exactly the deductions 2.0, 1.5,
\* 1.0, 1.0 and 2.0 and returns score 0 with level HIGH.
C3_FullDeductionScenario ==
    (Returned /\ C3_Scenario) =>
        /\ Deductions(Fired(RA_checks(metrics))) = <<20, 15, 10, 10, 20>>
        /\ result.red_flags = <<"No liquidity lock (30+ days recommended)", "Anonymous team",
                                "No vesting schedule", "Contract not verified",
                                "High holder concentration">>
        /\ result.risk_score = 0
        /\ result.risk_level = "HIGH"

C3_Witness ==
    /\ Returned /\ C3_Scenario
    /\ metrics.team_verified = Bool(FALSE)
    /\ metrics.vesting_enabled = Bool(FALSE)
    /\ metrics.contract_verified = Bool(FALSE)
    /\ result.risk_score = 0

IsNum(x) == x # Absent /\ x # None

\* the inputs of C4: lock >= 30 days, team verified, vesting enabled, contract
\* verified, top holder <= 30%, graduation time absent or >= 24h, oracle call succeeds
C4_Scenario ==
    /\ fn = "analyze_token_risk_with_metta" /\ oracle_ok
    /\ IsNum(metrics.liquidity_lock_duration) /\ metrics.liquidity_lock_duration.v >= 30
    /\ metrics.team_verified = Bool(TRUE)
    /\ metrics.vesting_enabled = Bool(TRUE)
    /\ metrics.contract_verified = Bool(TRUE)
    /\ IsNum(metrics.top_holder_percentage) /\ metrics.top_holder_percentage.v <= 300
    /\ \/ metrics.graduation_time_hours = Absent
       \/ IsNum(metrics.graduation_time_hours) /\ metrics.graduation_time_hours.v >= 24

\* C4: on those inputs the RiskAnalyzer makes no deduction: score 7.5, no red
\* flag, and a level that is MEDIUM or LOW.
C4_NoDeductionScenario ==
    (Returned /\ C4_Scenario) =>
        /\ result.risk_score = 75
        /\ result.red_flags = <<>>
        /\ result.risk_level \in {"MEDIUM", "LOW"}

\* the top holder exactly at the 30% threshold
C4_Witness ==
    /\ Returned /\ C4_Scenario
    /\ metrics.top_holder_percentage = Num(300)
    /\ metrics.graduation_time_hours = Num(24)
    /\ result.risk_score = 75

-----------------------------------------------------------------------------
(* The rebalancing decision *)

RebalanceCall == Returned /\ fn = "analyze_rebalancing_opportunity_with_metta"

\* the three conditions of lines 99-103, on the range the code evaluates them on
ImprovementHigh == optimal_range.expected_apr_improvement > 50
ConfidenceHigh == optimal_range.confidence > 80
CooldownElapsed(position, t) ==
    /\ position.last_rebalance # None
    /\ Days(t, position.last_rebalance.v) >= 1

RebalanceInstructions(sol_sent) ==
    SelectSeq(sol_sent, LAMBDA m : m.action = "rebalance_position")

\* a step that rebalances nothing: no rebalance instruction is sent, no fact is
\* stored, the counters, the history and the position's range stay as they are
NoRebalancing ==
    /\ RebalanceInstructions(lo_sol_sent') = RebalanceInstructions(lo_sol_sent)
    /\ lo_metta_kb' = lo_metta_kb
    /\ lo_agent_state'.performance_metrics = lo_agent_state.performance_metrics
    /\ lo_agent_state'.rebalancing_history = lo_agent_state.rebalancing_history
    /\ mon_position'.current_range = mon_position.current_range

C5_OnlyWhenAllThree ==
    /\ RebalanceCall /\ result.should_rebalance
         => ImprovementHigh /\ ConfidenceHigh /\ CooldownElapsed(position_arg, now)
    /\ mon_pc = "analyzed" /\ mon_analysis.should_rebalance
         => ImprovementHigh /\ ConfidenceHigh /\ CooldownElapsed(mon_position, now)

C5_SuppressedStep ==
    (mon_pc = "analyzed" /\ ~mon_analysis.should_rebalance) => NoRebalancing

\* C5: analyze_rebalancing_opportunity_with_metta returns should_rebalance = true
\* only when the improvement is above 5.0, the confidence above 0.80 and a whole
\* day has passed since the position's last rebalance; when one of them fails it
\* returns false, and the monitor step that follows such an analysis does not
\* run execute_rebalancing.
C5_RebalanceOnlyWhenAllThree == []C5_OnlyWhenAllThree /\ [][C5_SuppressedStep]_vars

\* the two other conditions hold, the last rebalance is less than a day old,
\* and the call has answered false
C5_Witness ==
    /\ RebalanceCall /\ oracle_ok
    /\ ImprovementHigh /\ ConfidenceHigh
    /\ position_arg.last_rebalance = Num(CallTime - 23)
    /\ "optimal_range" \in DOMAIN result
    /\ result.should_rebalance = FALSE

C6_FallbackIsNoAction ==
    /\ pc = "done" /\ fn = "analyze_rebalancing_opportunity_with_metta" /\ ~oracle_ok
         => result # Raised /\ result.should_rebalance = FALSE
    /\ mon_pc = "analyzed" /\ ~mon_oracle_ok
         => mon_analysis # Raised /\ mon_analysis.should_rebalance = FALSE

C6_FailedOracleStep ==
    (mon_pc = "analyzed" /\ ~mon_oracle_ok) => NoRebalancing

\* C6: when the oracle call inside analyze_rebalancing_opportunity_with_metta
\* fails, the function returns (it does not raise) with should_rebalance = false,
\* and the monitor step that follows sends no rebalance instruction and leaves
\* the position's range and the rebalance counters as they were.
C6_OracleFailureIsNoAction == []C6_FallbackIsNoAction /\ [][C6_FailedOracleStep]_vars

\* a tick whose analysis met a failing oracle has run to its end
C6_Witness ==
    /\ mon_ticks >= 1 /\ mon_pc = "idle" /\ mon_status = "completed"
    /\ ~mon_oracle_ok
    /\ mon_analysis = LO_fallback("metta.run failed")
    /\ lo_sol_sent = <<>>
    /\ DictHas(lo_agent_state.monitored_positions, mon_position.position_id)

-----------------------------------------------------------------------------
(* The oracle-failure path of the evaluations *)

Evaluations ==
    {"analyze_token_risk_with_metta", "analyze_risk_with_metta",
     "query_metta_for_launch_strategy"}

\* what the called evaluation returns for the same input when the oracle answers
SameWithOracle ==
    CASE fn = "analyze_token_risk_with_metta" -> analyze_token_risk_with_metta(metrics, TRUE)
      [] fn = "analyze_risk_with_metta" -> analyze_risk_with_metta(metrics, TRUE)
      [] fn = "query_metta_for_launch_strategy" ->
             query_metta_for_launch_strategy(metrics, TRUE)

DegradedFlags == {"Unable to complete analysis", "Unable to analyze"}

\* the result says the analysis is incomplete, by a flag or by its reasoning
Degraded(r) ==
    \/ "red_flags" \in DOMAIN r /\ \E i \in 1..Len(r.red_flags) : r.red_flags[i] \in DegradedFlags
    \/ "reasoning" \in DOMAIN r /\ r.reasoning = LC_default_config.reasoning

\* C7: for every input, the result an evaluation returns when its oracle call
\* fails has a confidence strictly below the one it returns for the same input
\* when the oracle call succeeds, and it carries a degraded-analysis marker.
C7_FallbackLessConfident ==
    (Returned /\ fn \in Evaluations /\ ~oracle_ok) =>
        /\ result.confidence < SameWithOracle.confidence
        /\ Degraded(result)

\* the local rules of the called scorer on the input
LocalChecks ==
    IF fn = "analyze_token_risk_with_metta" THEN RA_checks(metrics) ELSE LC_checks(metrics)

LocalChecksRaise ==
    IF fn = "analyze_token_risk_with_metta" THEN RA_checks_raise(metrics)
    ELSE LC_checks_raise(metrics)

\* C8: when the oracle call fails, the fallback risk_score is the base score
\* minus the deductions of the conditions the input violates, and the fallback
\* red_flags are the flags of those conditions followed by the degraded flag.
C8_FallbackAppliesLocalRules ==
    (/\ Returned /\ ~oracle_ok
     /\ fn \in {"analyze_token_risk_with_metta", "analyze_risk_with_metta"}
     /\ ~LocalChecksRaise) =>
        LET fired == Fired(LocalChecks)
        IN  /\ result.risk_score = Max(0, 75 - SumSeq(Deductions(fired)))
            /\ Len(result.red_flags) = Len(fired) + 1
            /\ SubSeq(result.red_flags, 1, Len(fired)) = Flags(fired)
            /\ result.red_flags[Len(result.red_flags)] \in DegradedFlags

\* C9: a metta.run that raises while a handler runs is never propagated out of
\* the handler: the handler completes normally.
C9_OracleFailureStaysInHandler == lc_status # "metta.run raised"

HasConfidence(r) ==
    \/ "confidence" \in DOMAIN r
    \/ "optimal_range" \in DOMAIN r /\ "confidence" \in DOMAIN r.optimal_range

ConfidenceOf(r) ==
    IF "confidence" \in DOMAIN r THEN r.confidence ELSE r.optimal_range.confidence

\* C10: every decision result, on the success path and on the oracle-failure
\* path alike, contains a confidence value in [0,1] (0..100 hundredths): the risk
\* results, the launch strategy and the rebalance analysis.
C10_EveryResultHasConfidence ==
    Returned => HasConfidence(result) /\ ConfidenceOf(result) \in 0..100

-----------------------------------------------------------------------------
\* C11: a decision function run twice on the same input metrics, the same
\* configuration and the same oracle outcome returns results equal in every field
C11_SecondRunEqual == pc = "again" => result_again = result

\* C11, the functions that read no clock: the two results are equal
C11_ClockFreeRunsEqual ==
    (pc = "again" /\ fn \in {"analyze_token_risk_with_metta", "analyze_risk_with_metta"})
        => result_again = result

-----------------------------------------------------------------------------
\* the tick of monitor_active_tokens has fetched the data of token x and has
\* not yet finished its analysis and its rug pull detection
RA_TickEvaluating(x) == ra_mon_pc \in {"fetched", "analyzed"} /\ ra_mon_token = x

\* the get_risk_report branch has fetched the data of token x and its analysis
\* has not yet returned
RA_ReportEvaluating(x) == ra_msg_pc = "fetched" /\ ra_msg.msg.token_address = x

-----------------------------------------------------------------------------
\* the position the tick is evaluating was removed after the tick took it up
LO_RemovedInFlight ==
    /\ mon_pc \in {"fetched", "analyzed"}
    /\ ~DictHas(lo_agent_state.monitored_positions, mon_position.position_id)

-----------------------------------------------------------------------------
\* the ids of a sequence of keys, and a sequence holding no id twice
Ids(keys) == {keys[i] : i \in DOMAIN keys}

NoDuplicates(keys) == \A i, j \in DOMAIN keys : keys[i] = keys[j] => i = j

LO_Monitored == DictKeys(lo_agent_state.monitored_positions)

RA_Monitored == DictKeys(ra_agent_state.monitored_tokens)

\* C14 for LiquidityOptimizer: add_position puts the id into the monitored set,
\* remove_position takes it out, nothing else changes the set, no id is held twice
C14_LO_SetFollowsMessages ==
    [][LET handled == lo_handled' = lo_handled + 1
           before == Ids(LO_Monitored)
           after == Ids(LO_Monitored')
       IN  /\ NoDuplicates(LO_Monitored')
           /\ IF handled /\ lo_msg'.msg.action = "add_position"
              THEN after = before \cup {lo_msg'.msg.position_id}
              ELSE IF handled /\ lo_msg'.msg.action = "remove_position"
              THEN after = before \ {lo_msg'.msg.position_id}
              ELSE after = before]_vars

\* C14 for RiskAnalyzer: monitor_token puts the token into the monitored set, a
\* removal message takes it out, no token is held twice
C14_RA_SetFollowsMessages ==
    [][LET handled == ra_handled' = ra_handled + 1
           before == Ids(RA_Monitored)
           after == Ids(RA_Monitored')
       IN  /\ NoDuplicates(RA_Monitored')
           /\ IF handled /\ ra_msg'.msg.action = "monitor_token"
              THEN after = before \cup {ra_msg'.msg.token_address}
              ELSE IF handled /\ ra_msg'.msg.action \in OtherActions
              THEN after = before \ {ra_msg'.msg.token_address}
              ELSE after = before]_vars

-----------------------------------------------------------------------------
\* a step that handles add_position
LO_AddStep == lo_handled' = lo_handled + 1 /\ lo_msg'.msg.action = "add_position"

\* C15: after add_position the record of the position is the one built from the
\* message alone, with last_check None: when the position was removed before,
\* neither the last_check a tick wrote nor any other field of the removed
\* record is in it
C15_ReAddStartsFresh ==
    [][LO_AddStep =>
          LET m == lo_msg'.msg
              positions == lo_agent_state'.monitored_positions
          IN  /\ DictHas(positions, m.position_id)
              /\ DictGet(positions, m.position_id) =
                     [pool_address |-> m.pool_address, token_a |-> m.token_a,
                      token_b |-> m.token_b, added_at |-> now, last_check |-> None]]_vars

\* a position that a tick had evaluated was removed, and has just been added
\* again at a later hour: its record has no last_check and the new added_at
C15_Witness ==
    /\ lo_handled > 0 /\ lo_msg.msg.action = "add_position"
    /\ LET id == lo_msg.msg.position_id
           removed == lo_removed[id]
           positions == lo_agent_state.monitored_positions
       IN  /\ removed # None
           /\ removed.last_check # None
           /\ DictHas(positions, id)
           /\ DictGet(positions, id).last_check = None
           /\ DictGet(positions, id).added_at # removed.added_at

-----------------------------------------------------------------------------
\* the records of the positions other than id
LO_OtherRecords(positions, id) ==
    {positions[i] : i \in {j \in DOMAIN positions : positions[j].key # id}}

\* C16: add_position for a position already monitored is answered with an error
\* status and not with the success acknowledgement, and leaves the records of
\* the other positions as they were
C16_DuplicateAddIsError ==
    [][(LO_AddStep /\ DictHas(lo_agent_state.monitored_positions, lo_msg'.msg.position_id))
          => /\ Len(lo_sent') > 0
             /\ \A i \in DOMAIN lo_sent' :
                    /\ lo_sent'[i].to = lo_msg'.sender
                    /\ lo_sent'[i].action # "position_added"
                    /\ lo_sent'[i].status # "monitoring"
             /\ LO_OtherRecords(lo_agent_state'.monitored_positions, lo_msg'.msg.position_id)
                  = LO_OtherRecords(lo_agent_state.monitored_positions,
                                    lo_msg'.msg.position_id)]_vars

\* C16 for RiskAnalyzer: monitor_token for a token already monitored is not
\* answered with the success acknowledgement
C16_RA_DuplicateAddIsError ==
    [][(/\ ra_handled' = ra_handled + 1
        /\ ra_msg'.msg.action = "monitor_token"
        /\ DictHas(ra_agent_state.monitored_tokens, ra_msg'.msg.token_address))
          => /\ Len(ra_sent') > 0
             /\ \A i \in DOMAIN ra_sent' : ra_sent'[i].action # "monitoring_started"]_vars

-----------------------------------------------------------------------------
\* log holds the first entries of registered, in the same order
IsPrefix(log, registered) ==
    /\ Len(log) <= Len(registered)
    /\ \A i \in DOMAIN log : log[i] = registered[i]

\* C17: the entities a tick has evaluated so far are the first entities of the
\* monitored set as it was when the tick started, in the order in which the set
\* holds them (the order in which they entered it), none of them twice
C17_TickVisitsOnceInOrder ==
    /\ IsPrefix(mon_log, mon_registered) /\ NoDuplicates(mon_log)
    /\ IsPrefix(ra_mon_log, ra_mon_registered) /\ NoDuplicates(ra_mon_log)

\* a tick of monitor_positions has evaluated two positions, the one added first
\* before the other
C17_Witness ==
    /\ Len(mon_log) = 2
    /\ mon_log = mon_registered
    /\ mon_log[1] # mon_log[2]

\* a tick of monitor_active_tokens has evaluated two tokens
C17_RA_Witness == Len(ra_mon_log) = 2 /\ ra_mon_log = ra_mon_registered

-----------------------------------------------------------------------------
\* the tick takes up the position that heads what is left of its snapshot
LO_TakesUp(id) == mon_pc = "loop" /\ mon_pc' = "fetched" /\ mon_position'.position_id = id

\* the position's last evaluation, as monitor_positions recorded it, is of the
\* current hour: less than any cadence of an hour or more ago
LO_JustEvaluated(id) ==
    /\ DictHas(lo_agent_state.monitored_positions, id)
    /\ DictGet(lo_agent_state.monitored_positions, id).last_check = Num(now)

\* C18: a tick does not evaluate again an entity evaluated less than the
\* minimum cadence ago: it takes up no position whose last_check is of the
\* current hour
C18_TickSkipsRecentlyEvaluated ==
    [][\A id \in PositionIds : LO_JustEvaluated(id) => ~LO_TakesUp(id)]_vars

-----------------------------------------------------------------------------
\* the last message handled was a chat message with a launch request in it
LC_LaunchRequested ==
    /\ lc_handled > 0
    /\ "content" \in DOMAIN lc_msg.msg
    /\ \E i \in DOMAIN lc_msg.msg.content :
          /\ lc_msg.msg.content[i].type = "text"
          /\ LC_intent(lc_msg.msg.content[i].text) = "launch"

\* C19: when a launch request has been handled, active_launches holds a record
\* under the id of the requesting message, with status awaiting_approval, the
\* proposed strategy and the risk analysis
C19_LaunchAwaitsApproval ==
    LC_LaunchRequested =>
        LET launches == lc_agent_state.active_launches
            id == lc_msg.msg.msg_id
        IN  /\ DictHas(launches, id)
            /\ DictGet(launches, id).status = "awaiting_approval"
            /\ "strategy" \in DOMAIN DictGet(launches, id)
            /\ "risk_analysis" \in DOMAIN DictGet(launches, id)

-----------------------------------------------------------------------------
\* the sender has been sent a strategy with "Reply 'approve' to proceed": in the
\* sender's eyes the launch is proposed and awaits approval
LC_Proposed(sender) ==
    \E i \in DOMAIN lc_sent :
        lc_sent[i].to = sender /\ lc_sent[i].kind = "chat" /\ lc_sent[i].text = "strategy"

\* a step that handles a chat message of the sender whose text is the keyword
LC_Replies(sender, keyword) ==
    /\ lc_handled' = lc_handled + 1
    /\ lc_msg'.sender = sender
    /\ "content" \in DOMAIN lc_msg'.msg
    /\ \E i \in DOMAIN lc_msg'.msg.content : lc_msg'.msg.content[i].text = {keyword}

\* the statuses of the records of active_launches
LC_Statuses(agent_state) ==
    {agent_state.active_launches[i].value.status : i \in DOMAIN agent_state.active_launches}

\* C20: when the sender of a proposed launch replies approve, the proposal
\* moves to APPROVED
C20_ApproveMovesToApproved ==
    [][\A sender \in Senders :
          (LC_Proposed(sender) /\ LC_Replies(sender, "approve"))
              => LC_Statuses(lc_agent_state') \cap {"APPROVED", "approved"} # {}]_vars

-----------------------------------------------------------------------------
\* the sender was sent a strategy in an earlier hour than the current one: the
\* proposal is older than any decision deadline of less than an hour
LC_Overdue(sender) ==
    /\ LC_Proposed(sender)
    /\ \E i \in DOMAIN lc_sent : lc_sent[i].kind = "ack" /\ lc_sent[i].timestamp < now

\* a step of the agent after which a launch is recorded as expired
LC_Expires ==
    /\ RunLaunchCoordinator
    /\ LC_Statuses(lc_agent_state') \cap {"EXPIRED", "expired"} # {}

\* C21: a proposal still awaiting approval past its deadline is moved to
\* EXPIRED by the next scheduler tick: whenever a proposal is overdue, a step
\* that expires a launch is possible
C21_OverdueProposalExpires ==
    \A sender \in Senders : LC_Overdue(sender) => ENABLED LC_Expires

\* C21, what the code does instead: no step of the agent ever records a launch
\* as expired
C21_NothingEverExpires ==
    LC_Statuses(lc_agent_state) \cap {"EXPIRED", "expired"} = {}

-----------------------------------------------------------------------------
\* what the handler of a chat message from sender with id msg_id has sent
\* starts with the acknowledgement of that id, and holds no other
AcknowledgedFirst(sent, sender, msg_id) ==
    /\ Len(sent) > 0
    /\ sent[1].kind = "ack" /\ sent[1].to = sender /\ sent[1].acknowledged_msg_id = msg_id
    /\ \A i \in DOMAIN sent : sent[i].kind = "ack" => i = 1

\* C22: for every chat message LaunchCoordinator or RiskAnalyzer handles, one
\* acknowledgement goes to the sender, with the id of the message, before any
\* response; the handlers change no state of the agent
C22_OneAcknowledgementFirst ==
    [][/\ (lc_handled' = lc_handled + 1 /\ "content" \in DOMAIN lc_msg'.msg)
           => /\ AcknowledgedFirst(lc_sent', lc_msg'.sender, lc_msg'.msg.msg_id)
              /\ lc_agent_state' = lc_agent_state
       /\ (ra_handled' = ra_handled + 1 /\ "content" \in DOMAIN ra_msg'.msg)
           => /\ AcknowledgedFirst(ra_sent', ra_msg'.sender, ra_msg'.msg.msg_id)
              /\ ra_agent_state' = ra_agent_state]_vars

\* LaunchCoordinator has handled a chat message and sent the acknowledgement and
\* two responses
C22_Witness ==
    /\ lc_handled > 0 /\ "content" \in DOMAIN lc_msg.msg
    /\ Len(lc_sent) = 3
    /\ lc_sent[1].kind = "ack" /\ lc_sent[1].acknowledged_msg_id = lc_msg.msg.msg_id

\* RiskAnalyzer has handled a chat message and sent the acknowledgement and two
\* responses
C22_RA_Witness ==
    /\ ra_handled > 0 /\ "content" \in DOMAIN ra_msg.msg
    /\ Len(ra_sent) = 3
    /\ ra_sent[1].kind = "ack" /\ ra_sent[1].acknowledged_msg_id = ra_msg.msg.msg_id

-----------------------------------------------------------------------------
\* the flag of a condition when the condition is violated
When(violated, flag) == IF violated THEN <<flag>> ELSE <<>>

\* a dict value Python takes for true; an absent key counts as False
Given(d, key) == ~Not(Get(d, key, Bool(FALSE)))

\* the conditions of RiskAnalyzer that the metrics d violate, in the order
\* liquidity lock, team, vesting, contract, holder concentration, graduation
RA_ViolatedInOrder(d) ==
    When(Get(d, "liquidity_lock_duration", Num(0)).v < 30,
         "No liquidity lock (30+ days recommended)")
    \o When(~Given(d, "team_verified"), "Anonymous team")
    \o When(~Given(d, "vesting_enabled"), "No vesting schedule")
    \o When(~Given(d, "contract_verified"), "Contract not verified")
    \o When(Get(d, "top_holder_percentage", Num(0)).v > 300, "High holder concentration")
    \o When(Get(d, "graduation_time_hours", Num(1000)).v < 24,
            "Rapid graduation (<24h) - possible pump & dump")

\* the conditions of RiskScoringModel that the token data d violate, in the
\* order liquidity lock, team, contract, vesting, holder concentration, graduation
RSM_ViolatedInOrder(d) ==
    (IF ~Given(d, "liquidity_locked") THEN <<"No liquidity lock">>
     ELSE When(Get(d, "liquidity_lock_duration", Num(0)).v < 30, "Short lock duration"))
    \o When(~Given(d, "team_verified"), "Anonymous team")
    \o When(~Given(d, "contract_verified"), "Contract not verified")
    \o When(~Given(d, "vesting_enabled"), "No vesting schedule")
    \o (IF Get(d, "top_holder_percentage", Num(0)).v > 300
        THEN <<"High holder concentration">>
        ELSE When(Get(d, "top_holder_percentage", Num(0)).v > 200,
                  "Moderate holder concentration"))
    \o When(Get(d, "graduation_time_hours", Num(168)).v < 24, "Rapid graduation (<24h)")

\* a call of RiskAnalyzer's analysis on metrics whose comparisons are defined
RA_Comparable ==
    Returned /\ fn = "analyze_token_risk_with_metta" /\ ~RA_checks_raise(metrics)

\* C23 as stated: the red_flags of RiskAnalyzer's analysis hold one entry for
\* every violated condition and none for a satisfied one, in evaluation order
C23_RedFlagsAreTheViolations ==
    RA_Comparable => result.red_flags = RA_ViolatedInOrder(metrics)

\* C23 where it holds: when the oracle answers, red_flags holds the violated
\* conditions, one entry each, in evaluation order; the same for
\* RiskScoringModel.predict in its own order
C23_RedFlagsInEvaluationOrder ==
    /\ (RA_Comparable /\ oracle_ok) => result.red_flags = RA_ViolatedInOrder(metrics)
    /\ (Returned /\ fn = "predict") => result.red_flags = RSM_ViolatedInOrder(metrics)

-----------------------------------------------------------------------------
\* the required fields of the two scorers
RA_RequiredFields ==
    {"liquidity_lock_duration", "team_verified", "vesting_enabled", "contract_verified",
     "top_holder_percentage"}

RSM_RequiredFields ==
    {"liquidity_locked", "team_verified", "contract_verified", "vesting_enabled",
     "holder_count"}

\* confidence lies on the line from floor (no required field present) to top
\* (all of them present), present counting the fields that are present
Interpolates(confidence, floor, top, present, required) ==
    confidence * required = floor * (required - present) + top * present

\* a call of RiskAnalyzer's analysis that the oracle answered, and a call of predict
RA_Succeeded == RA_Comparable /\ oracle_ok

RSM_Succeeded == Returned /\ fn = "predict"

-----------------------------------------------------------------------------
\* C25, its case: with the on-chain data fetch_on_chain_data returns, no tick
\* of monitor_active_tokens finds a HIGH risk level or a rug pull, so neither
\* send_risk_alert nor send_rug_pull_alert is ever called
C25_TickNeverAlerts ==
    /\ ra_agent_state.alerts_sent = 0
    /\ ra_agent_state.fraud_patterns_detected = 0
    /\ ra_mon_analysis # NoResult => ra_mon_analysis.risk_level # "HIGH"

-----------------------------------------------------------------------------
\* C26: main loads the agent UAGENT_NAME names, launch_coordinator when the
\* variable is unset; for a name outside the three agents, or when the agent's
\* file is missing, it exits with status 1 and no module is registered or run
RUN_Named == IF metrics.environ = <<>> THEN "launch_coordinator"
             ELSE metrics.environ[1].value

RUN_Refused ==
    \/ RUN_Named \notin {"launch_coordinator", "liquidity_optimizer", "risk_analyzer"}
    \/ /\ RUN_Named = "launch_coordinator" /\ "LaunchCoordinatorAgent.py" \notin metrics.files
    \/ /\ RUN_Named = "liquidity_optimizer" /\ "LiquidityOptimizerAgent.py" \notin metrics.files
    \/ /\ RUN_Named = "risk_analyzer" /\ "RiskAnalyzerAgent.py" \notin metrics.files

C26_RunnerLoadsNamedAgentOrExits ==
    (fn = "main" /\ pc = "done") =>
        IF RUN_Refused
        THEN result.exit_status = 1 /\ result.sys_modules = {} /\ uagent_name = "none"
        ELSE result.exit_status = 0 /\ result.sys_modules = {RUN_Named}
               /\ uagent_name = RUN_Named

\* an unknown name with all files present has been refused, and the unset
\* variable has loaded launch_coordinator
C26_Witness ==
    /\ fn = "main" /\ pc = "done"
    /\ metrics.environ # <<>> /\ RUN_Named = "risk_analyser" /\ metrics.files = AgentFiles
    /\ result.exit_status = 1

C26_WitnessDefault ==
    /\ fn = "main" /\ pc = "done"
    /\ metrics.environ = <<>>
    /\ uagent_name = "launch_coordinator"

-----------------------------------------------------------------------------
\* the response the claim expects for a text: the first matching intent in the
\* order launch+token, status, risk+analysis, otherwise the help text
LC_Expected(text) ==
    IF {"launch", "token"} \subseteq text THEN "strategy"
    ELSE IF "status" \in text THEN "status"
    ELSE IF {"risk", "analysis"} \subseteq text THEN "risk_capabilities"
    ELSE "help"

\* the chat responses among the messages sent, and the text items of a content
LC_ChatResponses(sent) == SelectSeq(sent, LAMBDA m : m.kind = "chat")

LC_TextItems(content) == SelectSeq(content, LAMBDA item : item.type = "text")

\* each text item of the message has one chat response to the sender, in order
LC_OneResponsePerItem ==
    LET responses == LC_ChatResponses(lc_sent)
        items == LC_TextItems(lc_msg.msg.content)
    IN  /\ Len(responses) = Len(items)
        /\ \A i \in DOMAIN responses :
              /\ responses[i].to = lc_msg.sender
              /\ responses[i].text = LC_Expected(items[i].text)

\* C27: for every chat message handled, each text item produces exactly one
\* chat response to the sender, chosen by the first matching intent; the items
\* after a launch request are processed as well
C27_OneResponsePerTextItem ==
    (lc_handled > 0 /\ "content" \in DOMAIN lc_msg.msg) => LC_OneResponsePerItem

\* C27, without a launch request among the items: each text item has its response
C27_OneResponsePerItemWithoutLaunch ==
    (lc_handled > 0 /\ "content" \in DOMAIN lc_msg.msg /\ ~LC_LaunchRequested)
        => LC_OneResponsePerItem

-----------------------------------------------------------------------------
\* the handler of the last dict message of RiskAnalyzer has returned, and the
\* message was a request with the action
RA_Answered(action) ==
    /\ ra_handled > 0 /\ ra_msg_pc = "idle"
    /\ "action" \in DOMAIN ra_msg.msg
    /\ ra_msg.msg.action = action

LO_Answered(action) ==
    /\ lo_handled > 0
    /\ lo_msg.msg.action = action

\* what was sent is one reply, to the sender of the request, of the kind, with
\* the entity id of the request under the key
OneReply(sent, request, kind, key) ==
    /\ Len(sent) = 1
    /\ sent[1].to = request.sender
    /\ sent[1].action = kind
    /\ sent[1][key] = request.msg[key]

\* C28: every reply to an entity request goes to the sender of the request and
\* names its entity id, and exactly one reply is sent per request:
\* position_added for add_position, monitoring_started for monitor_token,
\* risk_report for get_risk_report
C28_OneReplyPerRequest ==
    /\ RA_Answered("monitor_token")
          => OneReply(ra_sent, ra_msg, "monitoring_started", "token_address")
    /\ RA_Answered("get_risk_report")
          => OneReply(ra_sent, ra_msg, "risk_report", "token_address")
    /\ LO_Answered("add_position")
          => OneReply(lo_sent, lo_msg, "position_added", "position_id")

\* C28, apart from get_risk_report for a token that is not monitored, which gets
\* no reply: one reply per request, to its sender, with its entity id
C28_OneReplyPerKnownEntity ==
    /\ RA_Answered("monitor_token")
          => OneReply(ra_sent, ra_msg, "monitoring_started", "token_address")
    /\ RA_Answered("get_risk_report")
          => IF DictHas(ra_agent_state.monitored_tokens, ra_msg.msg.token_address)
             THEN OneReply(ra_sent, ra_msg, "risk_report", "token_address")
             ELSE ra_sent = <<>>
    /\ LO_Answered("add_position")
          => OneReply(lo_sent, lo_msg, "position_added", "position_id")

-----------------------------------------------------------------------------
\* a step in which execute_rebalancing is called and returns
LO_Rebalancing == Len(returned') = Len(returned) + 1

LO_successful == lo_agent_state.performance_metrics.successful_rebalances
LO_failed == lo_agent_state.performance_metrics.failed_rebalances

\* the calls of execute_rebalancing that returned True
LO_ReturnedTrue == Cardinality({i \in DOMAIN returned : returned[i]})

\* C29: each call of execute_rebalancing increments exactly one of
\* successful_rebalances and failed_rebalances by one, and it appends a history
\* entry and changes the range of the position exactly when it increments
\* successful_rebalances and returns True
C29_EachCallCountsOnce ==
    [][LO_Rebalancing =>
          LET succeeded == LO_successful' = LO_successful + 1
              failed == LO_failed' = LO_failed + 1
              appended == Len(lo_agent_state'.rebalancing_history)
                              = Len(lo_agent_state.rebalancing_history) + 1
              moved == position_arg'.current_range # position_arg.current_range
          IN  /\ \/ succeeded /\ LO_failed' = LO_failed
                 \/ failed /\ LO_successful' = LO_successful
              /\ succeeded <=> returned'[Len(returned')]
              /\ appended <=> succeeded
              /\ moved => succeeded]_vars

\* C29, over a run: the two counters add up to the number of calls, and the
\* history is as long as the count of the calls that returned True
C29_CountersAddUpToCalls ==
    /\ LO_successful + LO_failed = Len(returned)
    /\ Len(lo_agent_state.rebalancing_history) = LO_successful
    /\ LO_successful = LO_ReturnedTrue

\* C29, the part that holds: the history is as long as successful_rebalances,
\* and every call counts at least once
C29_HistoryCountsSuccesses ==
    /\ Len(lo_agent_state.rebalancing_history) = LO_successful
    /\ LO_successful + LO_failed >= Len(returned)
    /\ LO_ReturnedTrue <= LO_successful

-----------------------------------------------------------------------------
\* the bounds of a range
Bounds(range) == <<range.lower, range.upper>>

\* the entry a call of execute_rebalancing has appended to rebalancing_history
LO_Appended ==
    LET history == lo_agent_state'.rebalancing_history
    IN  history[Len(history)]

\* C30: the history entry of a successful execute_rebalancing records as
\* old_range the range the position had before the rebalance and as new_range
\* the range it has after it, and the fact written to the knowledge graph
\* carries the same old range
C30_HistoryRecordsOldAndNewRange ==
    [][(LO_Rebalancing /\ returned'[Len(returned')]) =>
          /\ Bounds(LO_Appended.old_range) = Bounds(position_arg.current_range)
          /\ Bounds(LO_Appended.new_range) = Bounds(position_arg'.current_range)
          /\ LET fact == lo_metta_kb'[Len(lo_metta_kb')]
             IN  <<fact.old_range_lower, fact.old_range_upper>>
                     = Bounds(position_arg.current_range)]_vars

\* C30, the part that holds: new_range is the range the position has after the
\* rebalance, in the history entry and in the fact of the knowledge graph
C30_HistoryRecordsNewRange ==
    [][(LO_Rebalancing /\ returned'[Len(returned')]) =>
          /\ Bounds(LO_Appended.new_range) = Bounds(position_arg'.current_range)
          /\ LET fact == lo_metta_kb'[Len(lo_metta_kb')]
             IN  <<fact.new_range_lower, fact.new_range_upper>>
                     = Bounds(position_arg'.current_range)]_vars

-----------------------------------------------------------------------------
\* a step in which harvest_fees_if_profitable is called and returns
LO_Harvesting ==
    /\ fn = "harvest_fees_if_profitable"
    /\ Len(returned') = Len(returned) + 1

LO_total_fees_harvested(agent_state) ==
    agent_state.performance_metrics.total_fees_harvested

\* C31: for unclaimed fees below 1.0 harvest_fees_if_profitable returns False,
\* sends no instruction and leaves total_fees_harvested and the position as
\* they were; otherwise it sends exactly one harvest instruction for the
\* position, adds the unclaimed amount to total_fees_harvested, sets the
\* unclaimed fees to 0 and returns True; the sum of total_fees_harvested and the
\* unclaimed fees is the same before and after
C31_HarvestMovesFeesToTotal ==
    [][LO_Harvesting =>
          LET ret == returned'[Len(returned')]
              fees == position_arg.unclaimed_fees
          IN  /\ fees < 1000 =>
                    /\ ret = FALSE
                    /\ lo_sol_sent' = lo_sol_sent
                    /\ lo_agent_state' = lo_agent_state
                    /\ position_arg' = position_arg
              /\ fees >= 1000 =>
                    /\ ret = TRUE
                    /\ Len(lo_sol_sent') = Len(lo_sol_sent) + 1
                    /\ lo_sol_sent'[Len(lo_sol_sent')].action = "harvest_fees"
                    /\ lo_sol_sent'[Len(lo_sol_sent')].position_id = position_arg.position_id
                    /\ LO_total_fees_harvested(lo_agent_state')
                          = LO_total_fees_harvested(lo_agent_state) + fees
                    /\ position_arg' = [position_arg EXCEPT !.unclaimed_fees = 0]
              /\ LO_total_fees_harvested(lo_agent_state') + position_arg'.unclaimed_fees
                    = LO_total_fees_harvested(lo_agent_state) + fees]_vars

\* two positions have been harvested, one after the other, and the total holds
\* the fees of both
C31_Witness ==
    /\ fn = "harvest_fees_if_profitable" /\ pc = "done"
    /\ returned = <<TRUE, TRUE>>
    /\ LO_total_fees_harvested(lo_agent_state) = 1000 + 2500
    /\ position_arg.unclaimed_fees = 0
    /\ Len(lo_sol_sent) = 2

\* a call on fees just below 1.0 has returned False and sent nothing
C31_WitnessBelow ==
    /\ fn = "harvest_fees_if_profitable" /\ pc = "done"
    /\ returned = <<FALSE>>
    /\ position_arg.unclaimed_fees = 999
    /\ lo_sol_sent = <<>>

-----------------------------------------------------------------------------
\* analyze_token_risk_with_metta has returned from its try block: the oracle
\* answered and no check raised
RA_Evaluated ==
    /\ pc = "done" /\ fn = "analyze_token_risk_with_metta"
    /\ oracle_ok /\ ~RA_checks_raise(metrics)

\* the band tests of lines 133 and 169-178, on a score in tenths
BandLevel(score) ==
    CASE score < 50 -> "HIGH"
      [] score >= 50 /\ score < 70 -> "MEDIUM"
      [] score >= 70 -> "LOW"

BandRecommendation(score) ==
    CASE score < 30 -> "HIGH RISK - Do not invest"
      [] score >= 30 /\ score < 50 -> "MEDIUM-HIGH RISK - Proceed with extreme caution"
      [] score >= 50 /\ score < 70 -> "MEDIUM RISK - Acceptable for experienced investors"
      [] score >= 70 /\ score < 85 -> "LOW-MEDIUM RISK - Generally safe"
      [] score >= 85 -> "LOW RISK - Strong safety indicators"

C32_FallbackFields ==
    (pc = "done" /\ fn = "analyze_token_risk_with_metta" /\ ~RA_Evaluated) =>
        /\ result.risk_level = BandLevel(result.risk_score)
        /\ result.fraud_probability = 100 - result.risk_score
        /\ result.recommendation # BandRecommendation(result.risk_score)

-----------------------------------------------------------------------------
\* C33: while the agent runs, whatever add_position, remove_position and
\* get_performance messages and monitor ticks it has handled, its performance
\* state is the initial one: no rebalance counted, no fees harvested, an empty
\* rebalancing history, and no instruction sent to the Solana agent
C33_PerformanceStateNeverChanges ==
    LO_running =>
        /\ lo_agent_state.performance_metrics = LO_initial_state.performance_metrics
        /\ lo_agent_state.rebalancing_history = <<>>
        /\ lo_sol_sent = <<>>
        /\ lo_metta_kb = <<>>
        /\ mon_position # NoPosition =>
              mon_position.last_rebalance = None /\ mon_position.unclaimed_fees = 0

\* two ticks have run over a monitored position, with the oracle answering in
\* the last evaluation, after messages were handled
C33_Witness ==
    /\ LO_running
    /\ mon_ticks = MaxTicks /\ mon_pc = "idle" /\ mon_status = "completed"
    /\ mon_log # <<>> /\ mon_oracle_ok
    /\ lo_handled >= 2
    /\ lo_agent_state.monitored_positions # <<>>

-----------------------------------------------------------------------------
\* a step that takes up a get_risk_report request for the token
RA_TakesUpReport(token_address) ==
    /\ ra_handled' = ra_handled + 1
    /\ "action" \in DOMAIN ra_msg'.msg
    /\ ra_msg'.msg.action = "get_risk_report"
    /\ ra_msg'.msg.token_address = token_address

\* a get_risk_report for a token that is not monitored ends in the step that
\* takes it up, with nothing sent and the agent state as it was; for a
\* monitored token the handler goes on to prepare the report
C34_UnmonitoredStep ==
    \A token_address \in TokenAddresses :
        RA_TakesUpReport(token_address) =>
            IF DictHas(ra_agent_state.monitored_tokens, token_address)
            THEN ra_msg_pc' = "fetched" /\ ra_agent_state' = ra_agent_state
            ELSE /\ ra_msg_pc' = "idle"
                 /\ ra_sent' = <<>>
                 /\ ra_agent_state' = ra_agent_state

\* when the handler of a get_risk_report has returned, a risk_report has gone
\* to the sender exactly if the token is monitored
C34_ReportIffMonitored ==
    RA_Answered("get_risk_report") =>
        ((\E i \in DOMAIN ra_sent :
              ra_sent[i].to = ra_msg.sender /\ ra_sent[i].action = "risk_report")
         <=> DictHas(ra_agent_state.monitored_tokens, ra_msg.msg.token_address))

\* C34: RiskAnalyzer answers a get_risk_report with a risk_report if and only
\* if the token is in monitored_tokens when the request is handled; for a token
\* that is not monitored it sends nothing and leaves the agent state unchanged
C34_ReportOnlyForMonitoredToken == []C34_ReportIffMonitored /\ [][C34_UnmonitoredStep]_vars

\* a report was asked for a token that is not monitored while another one is,
\* and nothing was sent
C34_Witness ==
    /\ RA_Answered("get_risk_report")
    /\ ra_agent_state.monitored_tokens # <<>>
    /\ ~DictHas(ra_agent_state.monitored_tokens, ra_msg.msg.token_address)
    /\ ra_sent = <<>>

-----------------------------------------------------------------------------
\* a step of monitor_active_tokens in which a token is evaluated
RA_TickEvaluates == ra_mon_pc = "fetched" /\ ra_mon_pc' = "analyzed"

C35_WitnessChat ==
    /\ RA_running
    /\ ra_mon_ticks >= 1 /\ ra_mon_pc = "idle" /\ ra_mon_log # <<>>
    /\ ra_handled = MaxMessages /\ "content" \in DOMAIN ra_msg.msg
    /\ Len(ra_sent) > 1

-----------------------------------------------------------------------------
\* detect_rug_pull_pattern has been called directly and has ended
RA_Detected == fn = "detect_rug_pull_pattern" /\ pc = "done"

\* C36: detect_rug_pull_pattern never reports a rug pull, whatever the price
\* history and whether or not the oracle answers, so fraud_patterns_detected
\* stays 0; with fewer than 5 prices the confidence is 0; and it never raises
\* for a history of non-negative prices
C36_NeverDetectsNeverRaises ==
    RA_Detected =>
        /\ result # Raised
        /\ result.rug_pull_detected = FALSE
        /\ Len(metrics.price_history) < 5 => result.confidence = 0
        /\ ra_agent_state.fraud_patterns_detected = 0

\* C36, the part that holds: a call that returns reports no rug pull, and no
\* call counts a fraud pattern
C36_NeverDetects ==
    /\ ra_agent_state.fraud_patterns_detected = 0
    /\ (RA_Detected /\ result # Raised) =>
          /\ result.rug_pull_detected = FALSE
          /\ Len(metrics.price_history) < 5 => result.confidence = 0
          /\ ~oracle_ok => result.confidence = 0

\* C36, the calls that raise: those on 5 prices or more of which the first of
\* the last 10 is 0
C36_RaisesOnZeroPrice ==
    RA_Detected =>
        LET h == metrics.price_history
        IN  result = Raised
              <=> (Len(h) >= 5 /\ h[IF Len(h) > 10 THEN Len(h) - 9 ELSE 1] = 0)

-----------------------------------------------------------------------------
\* a step in which LiquidityOptimizer handles a message with the action
LO_Handles(action) ==
    /\ lo_handled' = lo_handled + 1
    /\ lo_msg'.msg.action = action

\* the last entries of a list, at most n of them, in their order
LastEntries(list, n) ==
    SubSeq(list, IF Len(list) > n THEN Len(list) - n + 1 ELSE 1, Len(list))

\* everything of the agent state but the record of the position id
LO_Frame(agent_state, id) ==
    <<LO_OtherRecords(agent_state.monitored_positions, id),
      agent_state.performance_metrics,
      agent_state.rebalancing_history>>

\* C37: get_performance changes no agent state and reports at most the 10 most
\* recent rebalancing_history entries in their recorded order; add_position and
\* remove_position for an id leave the records of every other position, the
\* performance metrics and the rebalancing history as they were; remove_position
\* for an id that is not monitored changes nothing
C37_MessagesKeepTheirFrame ==
    [][/\ LO_Handles("get_performance") =>
            /\ lo_agent_state' = lo_agent_state
            /\ Len(lo_sent') = 1
            /\ Len(lo_sent'[1].recent_rebalances) <= 10
            /\ lo_sent'[1].recent_rebalances
                  = LastEntries(lo_agent_state.rebalancing_history, 10)
       /\ (LO_Handles("add_position") \/ LO_Handles("remove_position")) =>
            LO_Frame(lo_agent_state', lo_msg'.msg.position_id)
               = LO_Frame(lo_agent_state, lo_msg'.msg.position_id)
       /\ (/\ LO_Handles("remove_position")
           /\ ~DictHas(lo_agent_state.monitored_positions, lo_msg'.msg.position_id)) =>
            /\ lo_agent_state' = lo_agent_state
            /\ lo_sent' = <<>>]_vars

\* a position that was never monitored has been removed while another one is
\* monitored and has been checked by a tick
C37_Witness ==
    /\ LO_running /\ lo_handled >= 2
    /\ lo_msg.msg.action = "remove_position"
    /\ lo_removed[lo_msg.msg.position_id] = None
    /\ ~DictHas(lo_agent_state.monitored_positions, lo_msg.msg.position_id)
    /\ \E i \in DOMAIN lo_agent_state.monitored_positions :
          lo_agent_state.monitored_positions[i].value.last_check # None

\* a monitored position has been removed while the other one stays monitored
C37_WitnessRemoved ==
    /\ LO_running /\ lo_handled > 0
    /\ lo_msg.msg.action = "remove_position"
    /\ lo_removed[lo_msg.msg.position_id] # None
    /\ lo_agent_state.monitored_positions # <<>>

\* get_performance has been answered while a position is monitored
C37_WitnessPerformance ==
    /\ LO_running /\ lo_handled > 0
    /\ lo_msg.msg.action = "get_performance"
    /\ Len(lo_sent) = 1 /\ lo_sent[1].monitored_positions_count > 0

=============================================================================
